---------------------------- MODULE Spec2Model ----------------------------
(***************************************************************************)
(* venture-map: the server-side AI provider router (AIService) with its    *)
(* POST /generate and GET /health routes and the server's start-up, the    *)
(* browser's AIClient, and the application's key settings, IndexedDB       *)
(* store, chat panel and document tabs.                                    *)
(*                                                                         *)
(* JavaScript values are tagged records, so that undefined, null, strings, *)
(* numbers, arrays and objects stay distinct and `||`, `?.`, `[0]` and     *)
(* template literals are computed as JavaScript computes them.  Strings    *)
(* are TLA+ strings holding the program's own text.                        *)
(***************************************************************************)
EXTENDS Integers, Sequences, FiniteSets, TLC

(***************************************************************************)
(* Bounds of the model.                                                    *)
(***************************************************************************)
\* Requests the server process handles in one behaviour.
MaxRequests == 2
\* generateResponse calls the browser application makes in one behaviour.
MaxCalls == 2
\* saveBusinessPlan calls the application makes in one behaviour.
MaxSaves == 2

(***************************************************************************)
(* JavaScript values.                                                      *)
(***************************************************************************)
Undefined == [t |-> "undefined"]
Null == [t |-> "null"]
Str(s) == [t |-> "string", s |-> s]
Num(n) == [t |-> "number", n |-> n]
\* A number that is no integer, by its decimal text.
Decimal(d) == [t |-> "number", dec |-> d]
Bool(b) == [t |-> "boolean", b |-> b]
Arr(a) == [t |-> "array", a |-> a]
Obj(f) == [t |-> "object", f |-> f]
EmptyObj == Obj(<<>>)

Nullish(v) == v.t \in {"undefined", "null"}

\* ToBoolean: undefined, null, "" and 0 are falsy, every other value is truthy.
Truthy(v) ==
    CASE v.t = "undefined" -> FALSE
      [] v.t = "null" -> FALSE
      [] v.t = "string" -> v.s # ""
      [] v.t = "number" -> v.n # 0
      [] v.t = "boolean" -> v.b
      [] OTHER -> TRUE

\* a || b
Or(a, b) == IF Truthy(a) THEN a ELSE b

\* v.k for a v that is neither undefined nor null (the callers test that).
Get(v, k) == IF v.t = "object" /\ k \in DOMAIN v.f THEN v.f[k] ELSE Undefined

\* v[0] for a v that is neither undefined nor null: the first element of an
\* array, the first character of a string.
At0(v) ==
    CASE v.t = "array" -> IF Len(v.a) > 0 THEN v.a[1] ELSE Undefined
      [] v.t = "string" -> IF Len(v.s) > 0 THEN Str(SubSeq(v.s, 1, 1)) ELSE Undefined
      [] OTHER -> Undefined

\* v?.k and v?.[0]
OptGet(v, k) == IF Nullish(v) THEN Undefined ELSE Get(v, k)
OptAt0(v) == IF Nullish(v) THEN Undefined ELSE At0(v)

\* `${v}` in a template literal.
ToStr(v) ==
    CASE v.t = "string" -> v.s
      [] v.t = "undefined" -> "undefined"
      [] v.t = "null" -> "null"
      [] v.t = "number" -> ToString(v.n)
      [] v.t = "boolean" -> IF v.b THEN "true" ELSE "false"
      [] v.t = "array" -> "[array]"
      [] OTHER -> "[object Object]"

\* String.prototype.includes
Includes(s, p) ==
    \E i \in 1..(Len(s) - Len(p) + 1) : SubSeq(s, i, i + Len(p) - 1) = p

\* How a function ends: it returns a value, or throws an error of some class
\* (Error, TypeError, SyntaxError, FetchError) with a message.
Return(v) == [ok |-> TRUE, v |-> v]
ThrowAs(name, m) == [ok |-> FALSE, name |-> name, message |-> m]
Throw(m) == ThrowAs("Error", m)


(***************************************************************************)
(* String helpers of the JavaScript runtime.                               *)
(***************************************************************************)
IsSpace(c) == c \in {" ", "\t", "\n"}

RECURSIVE TrimStart(_)
TrimStart(s) == IF s # "" /\ IsSpace(Head(s)) THEN TrimStart(Tail(s)) ELSE s

RECURSIVE TrimEnd(_)
TrimEnd(s) ==
    IF s # "" /\ IsSpace(SubSeq(s, Len(s), Len(s)))
    THEN TrimEnd(SubSeq(s, 1, Len(s) - 1))
    ELSE s

\* String.prototype.trim
Trim(s) == TrimEnd(TrimStart(s))

LowerChar(c) ==
    CASE c = "A" -> "a" [] c = "B" -> "b" [] c = "C" -> "c" [] c = "D" -> "d"
      [] c = "E" -> "e" [] c = "F" -> "f" [] c = "G" -> "g" [] c = "H" -> "h"
      [] c = "I" -> "i" [] c = "J" -> "j" [] c = "K" -> "k" [] c = "L" -> "l"
      [] c = "M" -> "m" [] c = "N" -> "n" [] c = "O" -> "o" [] c = "P" -> "p"
      [] c = "Q" -> "q" [] c = "R" -> "r" [] c = "S" -> "s" [] c = "T" -> "t"
      [] c = "U" -> "u" [] c = "V" -> "v" [] c = "W" -> "w" [] c = "X" -> "x"
      [] c = "Y" -> "y" [] c = "Z" -> "z" [] OTHER -> c

\* String.prototype.toLowerCase
RECURSIVE ToLowerCase(_)
ToLowerCase(s) == IF s = "" THEN "" ELSE LowerChar(Head(s)) \o ToLowerCase(Tail(s))

(***************************************************************************)
(* AIService: credential validation and construction.                      *)
(***************************************************************************)
placeholders ==
    { "your-api-key-here", "your_api_key_here", "your-actual-api-key-here",
      "insert-your-key-here", "add-your-key-here", "sk-placeholder",
      "example-key" }

\* The shortest key validateApiKey accepts.
MinKeyLength == 10

\* A validation that compares with the placeholders as written (not the code's).
validateApiKeyCaseSensitive(key) ==
    IF ~Truthy(key) \/ Trim(key.s) = "" THEN Null
    ELSE IF key.s \in placeholders THEN Null
    ELSE IF Len(key.s) < MinKeyLength THEN Null
    ELSE key

\* validateApiKey(key): key is process.env's value, a string or undefined.
validateApiKey(key) ==
    IF ~Truthy(key) \/ Trim(key.s) = "" THEN Null
    ELSE IF ToLowerCase(key.s) \in placeholders THEN Null
    ELSE IF Len(key.s) < MinKeyLength THEN Null
    ELSE key

\* new AIService(): the fields the constructor assigns from process.env.
\* (customConfig.maxTokens and .temperature are read only when a request body
\* is built and are not part of this state.)
NewAIService(e) ==
    [ claudeApiKey |-> validateApiKey(e.CLAUDE_API_KEY),
      openaiApiKey |-> validateApiKey(e.OPENAI_API_KEY),
      geminiApiKey |-> validateApiKey(e.GEMINI_API_KEY),
      customApiKey |-> validateApiKey(e.CUSTOM_API_KEY),
      customConfig |->
        [ baseUrl |-> e.CUSTOM_API_BASE_URL,
          endpoint |-> Or(e.CUSTOM_API_ENDPOINT, Str("/chat/completions")),
          model |-> Or(e.CUSTOM_API_MODEL, Str("gpt-3.5-turbo")),
          format |-> Or(e.CUSTOM_API_FORMAT, Str("openai")),
          headerPrefix |-> Or(e.CUSTOM_API_HEADER_PREFIX, Str("Bearer")) ] ]

\* The condition of generateResponse's first `if`, repeated in isConfigured,
\* getActiveProvider, getConfigInfo and healthCheck.
CustomConfigured(svc) == Truthy(svc.customApiKey) /\ Truthy(svc.customConfig.baseUrl)

\* An isConfigured that counts a custom key without a base URL (not the code's).
isConfiguredKeyOnly(svc) ==
    \/ Truthy(svc.customApiKey)
    \/ Truthy(svc.geminiApiKey)
    \/ Truthy(svc.claudeApiKey)
    \/ Truthy(svc.openaiApiKey)

isConfigured(svc) ==
    \/ CustomConfigured(svc)
    \/ Truthy(svc.geminiApiKey)
    \/ Truthy(svc.claudeApiKey)
    \/ Truthy(svc.openaiApiKey)

getActiveProvider(svc) ==
    IF CustomConfigured(svc) THEN "Custom API"
    ELSE IF Truthy(svc.geminiApiKey) THEN "Gemini"
    ELSE IF Truthy(svc.claudeApiKey) THEN "Claude"
    ELSE IF Truthy(svc.openaiApiKey) THEN "OpenAI"
    ELSE "None"

\* A getConfigInfo that reports the custom provider's key too (not the code's).
getConfigInfoWithKey(svc) ==
    Obj([customAPI |-> Obj([configured |-> Bool(CustomConfigured(svc)),
                            apiKey |-> svc.customApiKey]),
         gemini |-> Obj([configured |-> Bool(Truthy(svc.geminiApiKey))]),
         claude |-> Obj([configured |-> Bool(Truthy(svc.claudeApiKey))]),
         openai |-> Obj([configured |-> Bool(Truthy(svc.openaiApiKey))])])

getConfigInfo(svc) ==
    Obj([customAPI |-> Obj([configured |-> Bool(CustomConfigured(svc)),
                            baseUrl |-> svc.customConfig.baseUrl,
                            endpoint |-> svc.customConfig.endpoint,
                            model |-> svc.customConfig.model,
                            format |-> svc.customConfig.format,
                            headerPrefix |-> svc.customConfig.headerPrefix]),
         gemini |-> Obj([configured |-> Bool(Truthy(svc.geminiApiKey)),
                         baseUrl |-> Str("https://generativelanguage.googleapis.com")]),
         claude |-> Obj([configured |-> Bool(Truthy(svc.claudeApiKey)),
                         baseUrl |-> Str("https://api.anthropic.com")]),
         openai |-> Obj([configured |-> Bool(Truthy(svc.openaiApiKey)),
                         baseUrl |-> Str("https://api.openai.com/v1")])])

\* A fallback that answers without quoting the question (not the code's).
getFallbackResponseNoPrompt(prompt) ==
    "Thanks for your question. I'm here to help with business planning! The AI service is currently unavailable."

\* The text of getFallbackResponse(prompt); the bullet character U+2022 is
\* written "*".
getFallbackResponse(prompt) ==
    "Thanks for your question: \"" \o ToStr(prompt)
    \o "\". I'm here to help with business planning! Unfortunately, I'm having trouble connecting to my AI service right now. \n"
    \o "\nHere are some things I can help you with once the connection is restored:\n"
    \o "\n* **Compliance Research**: Industry-specific regulatory requirements\n"
    \o "* **Business Name Suggestions**: Available domain names and trademark considerations  \n"
    \o "* **Market Analysis**: Competitive landscape and market sizing\n"
    \o "* **Financial Planning**: Revenue projections and funding strategies\n"
    \o "* **Technical Requirements**: Technology stack and infrastructure needs\n"
    \o "\nPlease check your API configuration and try again. Make sure you have either:\n"
    \o "- GEMINI_API_KEY for Gemini API access\n"
    \o "- CLAUDE_API_KEY for Claude API access\n"
    \o "- OPENAI_API_KEY for OpenAI access\n"
    \o "- Custom API configuration\n"
    \o "\nTry rephrasing your question or check back in a moment once your API is configured."

(***************************************************************************)
(* What a provider call awaits.  fetch either rejects (a transport error)  *)
(* or resolves to a response with a status, a status text and a body;      *)
(* response.json() rejects on a body that is not JSON.  The Gemini SDK     *)
(* either rejects or yields the text of response.text().                   *)
(***************************************************************************)
FetchRejects(name, m) == [kind |-> "reject", name |-> name, message |-> m]
NotJson == [parses |-> FALSE]
JsonBody(d) == [parses |-> TRUE, data |-> d]
Response(status, statusText, body) ==
    [kind |-> "response", status |-> status, statusText |-> statusText, body |-> body]
SdkText(s) == [kind |-> "text", text |-> s]

\* response.ok
Ok(o) == o.status >= 200 /\ o.status <= 299

\* The errors of response.json() on a body that is no JSON, and of reading
\* property k of undefined or null.
JsonSyntaxError == ThrowAs("SyntaxError", "Unexpected token < in JSON at position 0")
TypeErrorReading(k) ==
    ThrowAs("TypeError", "Cannot read properties of undefined (reading '" \o k \o "')")

\* `await response.json().catch(() => ({}))`
JsonOrEmpty(o) == IF o.body.parses THEN o.body.data ELSE EmptyObj

\* The `if (!response.ok)` block of callClaudeAPI, callOpenAI and callCustomAPI:
\* throws `${label} error: ${status} - ${error.error?.message || dflt}`, or a
\* TypeError when the error body is the JSON value null.
ThrowApiError(label, o, dflt) ==
    LET error == JsonOrEmpty(o) IN
    IF Nullish(error) THEN TypeErrorReading("error")
    ELSE Throw(label \o " error: " \o ToString(o.status) \o " - "
               \o ToStr(Or(OptGet(Get(error, "error"), "message"), dflt)))

\* data.content[0].text
ClaudeText(data) ==
    IF Nullish(data) THEN TypeErrorReading("content")
    ELSE IF Nullish(Get(data, "content")) THEN TypeErrorReading("0")
    ELSE IF Nullish(At0(Get(data, "content"))) THEN TypeErrorReading("text")
    ELSE Return(Get(At0(Get(data, "content")), "text"))

\* data.choices[0].message.content
OpenAIText(data) ==
    IF Nullish(data) THEN TypeErrorReading("choices")
    ELSE IF Nullish(Get(data, "choices")) THEN TypeErrorReading("0")
    ELSE IF Nullish(At0(Get(data, "choices"))) THEN TypeErrorReading("message")
    ELSE IF Nullish(Get(At0(Get(data, "choices")), "message"))
         THEN TypeErrorReading("content")
    ELSE Return(Get(Get(At0(Get(data, "choices")), "message"), "content"))

NoResponseReceived == Str("No response received")

\* "Parse response based on format" of callCustomAPI, for a data that is not null.
ParseCustom(format, data) ==
    IF format = Str("openai")
    THEN Or(Or(OptGet(OptGet(OptAt0(Get(data, "choices")), "message"), "content"),
               Get(data, "response")),
            NoResponseReceived)
    ELSE IF format = Str("claude")
    THEN Or(Or(OptGet(OptAt0(Get(data, "content")), "text"), Get(data, "response")),
            NoResponseReceived)
    ELSE Or(Or(Or(Or(Get(data, "response"), Get(data, "content")), Get(data, "text")),
               Get(data, "message")),
            NoResponseReceived)

\* The property the parse reads first from data; reading it throws when data is null.
FirstKey(format) ==
    IF format = Str("openai") THEN "choices"
    ELSE IF format = Str("claude") THEN "content"
    ELSE "response"

(***************************************************************************)
(* The request each call function builds before it awaits.                 *)
(***************************************************************************)
\* parseInt(process.env.CUSTOM_API_MAX_TOKENS || '4000') and the max_tokens of
\* the built-in providers; parseFloat(process.env.CUSTOM_API_TEMPERATURE ||
\* '0.7').  The two variables are unset in every environment of the model.
DefaultMaxTokens == 4000
DefaultTemperature == Decimal("0.7")

SystemPrefix == "You are a helpful business consultant. Here's the current context: "

\* const messages = []; if (context) messages.push(system); messages.push(user)
Messages(prompt, context) ==
    LET user == Obj([role |-> Str("user"), content |-> prompt])
        system == Obj([role |-> Str("system"),
                       content |-> Str(SystemPrefix \o ToStr(context))])
    IN  Arr(IF Truthy(context) THEN <<system, user>> ELSE <<user>>)

\* A request body with a temperature in every format (not the code's).
CustomRequestBodyWithTemperature(svc, prompt, context) ==
    Obj([model |-> svc.customConfig.model,
         messages |-> Messages(prompt, context),
         max_tokens |-> Num(DefaultMaxTokens),
         temperature |-> DefaultTemperature])

\* "Build request body based on format" of callCustomAPI: the requestBody
\* object, before JSON.stringify.
CustomRequestBody(svc, prompt, context) ==
    IF svc.customConfig.format = Str("openai")
    THEN Obj([model |-> svc.customConfig.model,
              messages |-> Messages(prompt, context),
              max_tokens |-> Num(DefaultMaxTokens),
              temperature |-> DefaultTemperature])
    ELSE IF svc.customConfig.format = Str("claude")
    THEN Obj([model |-> svc.customConfig.model,
              max_tokens |-> Num(DefaultMaxTokens),
              messages |-> Messages(prompt, context)])
    ELSE Obj([model |-> svc.customConfig.model,
              prompt |-> prompt,
              context |-> context,
              max_tokens |-> Num(DefaultMaxTokens),
              temperature |-> DefaultTemperature,
              messages |-> Messages(prompt, context)])

\* The body callClaudeAPI and callOpenAI pass to JSON.stringify, and what
\* callGeminiAPI hands to the SDK (the chat history and the message).
ClaudeRequestBody(prompt, context) ==
    Obj([model |-> Str("claude-3-sonnet-20240229"),
         max_tokens |-> Num(4000),
         messages |-> Messages(prompt, context)])

OpenAIRequestBody(prompt, context) ==
    Obj([model |-> Str("gpt-4"),
         messages |-> Messages(prompt, context),
         max_tokens |-> Num(4000),
         temperature |-> DefaultTemperature])

GeminiRequest(prompt, context) ==
    Obj([history |->
            Arr(IF Truthy(context)
                THEN <<Obj([role |-> Str("user"),
                            parts |-> Arr(<<Obj([text |-> Str(SystemPrefix \o ToStr(context))])>>)]),
                       Obj([role |-> Str("model"),
                            parts |-> Arr(<<Obj([text |-> Str("Okay, I understand the context.")])>>)])>>
                ELSE <<>>),
         message |-> prompt])

\* Headers that carry the key both ways (not the code's).
CustomHeadersBoth(svc) ==
    ("Content-Type" :> Str("application/json"))
    @@ ("Authorization" :> Str("Bearer " \o ToStr(svc.customApiKey)))
    @@ ("x-api-key" :> svc.customApiKey)

\* "Build headers" and "Set up authorization header" of callCustomAPI.
CustomHeaders(svc) ==
    LET prefix == svc.customConfig.headerPrefix IN
    ("Content-Type" :> Str("application/json"))
    @@ IF prefix = Str("Bearer")
       THEN "Authorization" :> Str("Bearer " \o ToStr(svc.customApiKey))
       ELSE IF prefix = Str("x-api-key")
       THEN "x-api-key" :> svc.customApiKey
       ELSE IF prefix = Str("API-Key")
       THEN "API-Key" :> svc.customApiKey
       ELSE "Authorization" :> Str(ToStr(prefix) \o " " \o ToStr(svc.customApiKey))

\* The headers of callClaudeAPI and callOpenAI; the Gemini SDK is given the
\* key and sets its own header.
ClaudeHeaders(svc) ==
    ("Content-Type" :> Str("application/json"))
    @@ ("x-api-key" :> svc.claudeApiKey)
    @@ ("anthropic-version" :> Str("2023-06-01"))

OpenAIHeaders(svc) ==
    ("Content-Type" :> Str("application/json"))
    @@ ("Authorization" :> Str("Bearer " \o ToStr(svc.openaiApiKey)))

GeminiKey(svc) == "apiKey" :> svc.geminiApiKey

\* The request provider p's call function builds for a prompt and a context.
RequestOf(svc, p, prompt, context) ==
    [ provider |-> p,
      headers |-> CASE p = "Custom API" -> CustomHeaders(svc)
                    [] p = "Gemini" -> GeminiKey(svc)
                    [] p = "Claude" -> ClaudeHeaders(svc)
                    [] OTHER -> OpenAIHeaders(svc),
      body |-> CASE p = "Custom API" -> CustomRequestBody(svc, prompt, context)
                 [] p = "Gemini" -> GeminiRequest(prompt, context)
                 [] p = "Claude" -> ClaudeRequestBody(prompt, context)
                 [] OTHER -> OpenAIRequestBody(prompt, context) ]

\* callGeminiAPI, given what the SDK call did.
callGeminiAPI(svc, o) ==
    IF o.kind = "reject" THEN ThrowAs(o.name, o.message) ELSE Return(Str(o.text))

\* callClaudeAPI, given what fetch did.
callClaudeAPI(svc, o) ==
    IF o.kind = "reject" THEN ThrowAs(o.name, o.message)
    ELSE IF ~Ok(o) THEN ThrowApiError("Claude API", o, Str("Unknown error"))
    ELSE IF ~o.body.parses THEN JsonSyntaxError
    ELSE ClaudeText(o.body.data)

\* callOpenAI, given what fetch did.
callOpenAI(svc, o) ==
    IF o.kind = "reject" THEN ThrowAs(o.name, o.message)
    ELSE IF ~Ok(o) THEN ThrowApiError("OpenAI API", o, Str("Unknown error"))
    ELSE IF ~o.body.parses THEN JsonSyntaxError
    ELSE OpenAIText(o.body.data)

\* callCustomAPI, given what fetch did.
callCustomAPI(svc, o) ==
    IF o.kind = "reject" THEN ThrowAs(o.name, o.message)
    ELSE IF ~Ok(o) THEN ThrowApiError("Custom API", o, Str(o.statusText))
    ELSE IF ~o.body.parses THEN JsonSyntaxError
    ELSE IF Nullish(o.body.data) THEN TypeErrorReading(FirstKey(svc.customConfig.format))
    ELSE Return(ParseCustom(svc.customConfig.format, o.body.data))

(***************************************************************************)
(* AIService.generateResponse.  It is an async function: it runs up to the *)
(* provider call it awaits (Await) or to its return or throw (Settle), and *)
(* resumes when the awaited call ends.                                     *)
(***************************************************************************)
Await(p) == [kind |-> "await", provider |-> p]
Settle(r) == [kind |-> "settle", r |-> r]

\* A fallback step that calls out (not the code's).
FromFallbackCallsOut(svc, prompt) == Await("OpenAI")

\* "If all APIs fail, return fallback response"
FromFallback(svc, prompt) == Settle(Return(Str(getFallbackResponse(prompt))))

\* "Try OpenAI API if available"
FromOpenAI(svc, prompt) ==
    IF Truthy(svc.openaiApiKey) THEN Await("OpenAI") ELSE FromFallback(svc, prompt)

\* "Try Claude API if available"
FromClaude(svc, prompt) ==
    IF Truthy(svc.claudeApiKey) THEN Await("Claude") ELSE FromOpenAI(svc, prompt)

\* "Try Gemini API if available"
FromGemini(svc, prompt) ==
    IF Truthy(svc.geminiApiKey) THEN Await("Gemini") ELSE FromClaude(svc, prompt)

\* FromCustom with the first two blocks in the other order: Gemini is tried
\* before the custom provider.
FromCustomGeminiFirst(svc, prompt) ==
    IF Truthy(svc.geminiApiKey) THEN Await("Gemini")
    ELSE IF CustomConfigured(svc) THEN Await("Custom API")
    ELSE FromClaude(svc, prompt)

\* "Try Custom API first if configured": where generateResponse starts.
FromCustom(svc, prompt) ==
    IF CustomConfigured(svc) THEN Await("Custom API") ELSE FromGemini(svc, prompt)

\* AfterCall without the `return` of `return await call`: a call that
\* succeeded falls through to the next block like one that threw.
AfterCallNoReturn(svc, prompt, p, r) ==
    CASE p = "Custom API" -> FromGemini(svc, prompt)
      [] p = "Gemini" -> FromClaude(svc, prompt)
      [] p = "Claude" -> FromOpenAI(svc, prompt)
      [] OTHER -> IF r.ok THEN Settle(r) ELSE FromFallback(svc, prompt)

\* AfterCall with a catch that calls the failed provider again.
AfterCallRetry(svc, prompt, p, r) ==
    IF r.ok THEN Settle(r) ELSE Await(p)

\* The rest of generateResponse after provider p's call ended with r:
\* `return await call` returns r's value; the catch logs and falls through
\* to the next `if`.
AfterCall(svc, prompt, p, r) ==
    IF r.ok THEN Settle(r)
    ELSE CASE p = "Custom API" -> FromGemini(svc, prompt)
           [] p = "Gemini" -> FromClaude(svc, prompt)
           [] p = "Claude" -> FromOpenAI(svc, prompt)
           [] OTHER -> FromFallback(svc, prompt)

(***************************************************************************)
(* POST /generate.                                                         *)
(***************************************************************************)
\* RouteDecision with the two checks in the other order.
RouteDecisionPromptFirst(e, body) ==
    IF ~Truthy(body.prompt) \/ body.prompt.t # "string" THEN 400
    ELSE IF e.USE_BACKEND_API_KEYS # Str("true") THEN 403
    ELSE 0

\* The two early returns of the handler, in the handler's order: the status
\* it answers without calling the service, or 0 when it goes on.
RouteDecision(e, body) ==
    IF e.USE_BACKEND_API_KEYS # Str("true") THEN 403
    ELSE IF ~Truthy(body.prompt) \/ body.prompt.t # "string" THEN 400
    ELSE 0

\* res.json(o): JSON.stringify leaves out the properties whose value is undefined.
\* The same holds inside the value: a nested object loses its undefined
\* properties, an undefined array element is written null.
RECURSIVE Json(_)
Json(v) ==
    CASE v.t = "object" ->
           Obj([k \in {j \in DOMAIN v.f : v.f[j] # Undefined} |-> Json(v.f[k])])
      [] v.t = "array" ->
           Arr([i \in DOMAIN v.a |-> IF v.a[i] = Undefined THEN Null ELSE Json(v.a[i])])
      [] OTHER -> v

JsonOf(o) == Json(Obj(o))

HttpResponse(status, body) == [status |-> status, body |-> body]
NoResponse == HttpResponse(0, EmptyObj)

\* The 403 and 400 answers (the timestamp is left out of every body).
RejectResponse(status) ==
    IF status = 403
    THEN HttpResponse(403, JsonOf([error |-> Str("Backend API keys disabled"),
             message |-> Str("Backend API keys are disabled. Please use frontend API keys."),
             useBackendKeys |-> Bool(FALSE)]))
    ELSE HttpResponse(400, JsonOf([error |-> Str("Invalid request"),
             message |-> Str("Prompt is required and must be a string")]))

\* What the handler answers once generateResponse has settled with r: the
\* res.json of the try block, or the catch block's status by error message.
Respond(svc, e, r) ==
    IF r.ok
    THEN HttpResponse(200, JsonOf([response |-> r.v,
                                   provider |-> Str(getActiveProvider(svc))]))
    ELSE IF Includes(r.message, "API key")
    THEN HttpResponse(401, JsonOf([error |-> Str("Authentication failed"),
                                   message |-> Str("Invalid or missing API key")]))
    ELSE IF Includes(r.message, "rate limit")
    THEN HttpResponse(429, JsonOf([error |-> Str("Rate limit exceeded"),
                                   message |-> Str("Too many requests, please try again later")]))
    ELSE HttpResponse(500, JsonOf([error |-> Str("AI generation failed"),
             message |-> IF e.NODE_ENV = Str("development") THEN Str(r.message)
                         ELSE Str("Failed to generate response")]))

\* router.get('/config'): the body of its res.json (its try block has
\* nothing that throws).
ConfigResponse(svc, e) ==
    HttpResponse(200, JsonOf([config |-> getConfigInfo(svc),
                              activeProvider |-> Str(getActiveProvider(svc)),
                              isConfigured |-> Bool(isConfigured(svc)),
                              useBackendKeys |-> Bool(e.USE_BACKEND_API_KEYS = Str("true"))]))

(***************************************************************************)
(* GET /health of the router.                                              *)
(***************************************************************************)
\* The probe of the custom provider was not made.
NotProbed == [kind |-> "none"]

\* A healthCheck that lists Gemini whether it has a key or not (not the code's).
healthCheckListsGemini(svc, probe) ==
    Return(Obj([services |-> Obj("gemini" :> Obj([status |-> Str("configured"),
                                                   configured |-> Bool(TRUE)]))]))

\* AIService.healthCheck once the probe of the custom provider, if it made
\* one, did `probe` (the timestamp is left out).
healthCheck(svc, probe) ==
    LET configured == Obj([status |-> Str("configured"), configured |-> Bool(TRUE)])
        entry(k, present, v) == IF present THEN k :> v ELSE <<>>
        custom ==
            IF probe.kind = "reject"
            THEN Obj([status |-> Str("unavailable"), error |-> Str(probe.message)])
            ELSE Obj([status |-> Str(IF Ok(probe) THEN "healthy" ELSE "unhealthy"),
                      responseTime |-> Str(IF Ok(probe) THEN "fast" ELSE "slow")])
    IN  Return(Obj([services |->
            Obj(entry("custom", CustomConfigured(svc), custom)
                @@ entry("gemini", Truthy(svc.geminiApiKey), configured)
                @@ entry("claude", Truthy(svc.claudeApiKey), configured)
                @@ entry("openai", Truthy(svc.openaiApiKey), configured))]))

\* router.get('/health'): the answer once healthCheck has settled with r.
HealthResponse(e, r) ==
    IF r.ok THEN HttpResponse(200, Obj([health |-> r.v]))
    ELSE HttpResponse(500, Obj([error |-> Str("Health check failed"),
             message |-> Str(IF e.NODE_ENV = Str("development") THEN r.message
                             ELSE "Service health check failed")]))

(***************************************************************************)
(* AIClient, the router of the browser application.                        *)
(***************************************************************************)
\* const BACKEND_BASE_URL and const DEVELOPER_MODE, from import.meta.env.
BACKEND_BASE_URL(ve) == Or(ve.VITE_BACKEND_URL, Str("http://localhost:3001"))
DEVELOPER_MODE(ve) == ve.VITE_DEVELOPER_MODE # Str("false")

\* AIClient.getFallbackResponse(prompt, errorMessage); the bullet character
\* U+2022 is written "*".
AIClient_getFallbackResponse(ve, prompt, errorMessage) ==
    LET baseMessage == "Thanks for your question: \"" \o ToStr(prompt)
                       \o "\". I'm here to help with business planning!"
    IN  IF Truthy(errorMessage)
        THEN baseMessage
             \o " Unfortunately, I'm having trouble connecting to my AI service right now: "
             \o ToStr(errorMessage) \o "\n"
             \o "\nHere are some things I can help you with once the connection is restored:\n"
             \o "\n* **Compliance Research**: Industry-specific regulatory requirements\n"
             \o "* **Business Name Suggestions**: Available domain names and trademark considerations  \n"
             \o "* **Market Analysis**: Competitive landscape and market sizing\n"
             \o "* **Financial Planning**: Revenue projections and funding strategies\n"
             \o "* **Technical Requirements**: Technology stack and infrastructure needs\n"
             \o "\nPlease make sure:\n"
             \o "1. The backend server is running (npm run dev in /server directory)\n"
             \o "2. Your API keys are configured in the backend .env file\n"
             \o "3. The backend URL is correct (" \o ToStr(BACKEND_BASE_URL(ve)) \o ")\n"
             \o "\nTry rephrasing your question or check back in a moment once the service is restored."
        ELSE baseMessage
             \o " The AI service is currently unavailable. Please try again in a moment."

\* An async function of the client has run to a fetch it awaits (to a
\* target, with the credential it put in the header) or has settled.
AwaitFetch(target, credential) ==
    [kind |-> "await", target |-> target, credential |-> credential]

\* The catch of generateDirectResponse, with the provider it read before the call.
DirectCatch(ve, prompt, provider, err) ==
    Settle(Return(Str(AIClient_getFallbackResponse(ve, prompt,
        Str(ToStr(provider) \o " API error: " \o err.message)))))

\* generateDirectResponse up to its fetch: the check of userApiKeys, then the
\* try block, in which callClaudeAPI / callOpenAIAPI check their key.
generateDirectResponse(keys, ve, prompt) ==
    IF keys = Null THEN Settle(Throw("No user API keys configured"))
    ELSE IF keys.provider = Str("claude")
    THEN IF ~Truthy(keys.claude)
         THEN DirectCatch(ve, prompt, keys.provider, Throw("Claude API key not configured"))
         ELSE AwaitFetch("claude", keys.claude)
    ELSE IF keys.provider = Str("openai")
    THEN IF ~Truthy(keys.openai)
         THEN DirectCatch(ve, prompt, keys.provider, Throw("OpenAI API key not configured"))
         ELSE AwaitFetch("openai", keys.openai)
    ELSE DirectCatch(ve, prompt, keys.provider,
                     Throw("Unknown provider: " \o ToStr(keys.provider)))

\* A client that asks the backend first whenever developer mode is on (not
\* the code's).
AIClient_generateResponseBackendFirst(keys, ve, prompt) ==
    IF DEVELOPER_MODE(ve) THEN AwaitFetch("backend", Undefined)
    ELSE IF keys # Null /\ Truthy(keys.provider)
    THEN generateDirectResponse(keys, ve, prompt)
    ELSE Settle(Return(Str(AIClient_getFallbackResponse(ve, prompt,
             Str("Backend API disabled. Please configure your API keys.")))))

\* AIClient.generateResponse up to its fetch.
AIClient_generateResponse(keys, ve, prompt) ==
    IF keys # Null /\ Truthy(keys.provider)
    THEN generateDirectResponse(keys, ve, prompt)
    ELSE IF ~DEVELOPER_MODE(ve)
    THEN Settle(Return(Str(AIClient_getFallbackResponse(ve, prompt,
             Str("Backend API disabled. Please configure your API keys.")))))
    ELSE AwaitFetch("backend", Undefined)

\* The rest of AIClient.callClaudeAPI / callOpenAIAPI after the fetch did o.
AIClient_callClaudeAPI(o) ==
    IF o.kind = "reject" THEN ThrowAs(o.name, o.message)
    ELSE IF ~Ok(o)
    THEN Throw("Claude API error: " \o ToString(o.status) \o " " \o o.body.text)
    ELSE IF ~o.body.parses THEN JsonSyntaxError
    ELSE ClaudeText(o.body.data)

AIClient_callOpenAIAPI(o) ==
    IF o.kind = "reject" THEN ThrowAs(o.name, o.message)
    ELSE IF ~Ok(o)
    THEN Throw("OpenAI API error: " \o ToString(o.status) \o " " \o o.body.text)
    ELSE IF ~o.body.parses THEN JsonSyntaxError
    ELSE OpenAIText(o.body.data)

\* The try block of generateResponse after the fetch to the backend did o.
BackendTry(o) ==
    IF o.kind = "reject" THEN ThrowAs(o.name, o.message)
    ELSE IF ~Ok(o)
    THEN LET errorData ==
                 IF o.body.parses THEN o.body.data
                 ELSE Obj([error |-> Str("Network error"),
                           message |-> Str("HTTP " \o ToString(o.status) \o ": "
                                           \o o.statusText)])
         IN  IF Nullish(errorData) THEN TypeErrorReading("message")
             ELSE Throw(ToStr(Or(Get(errorData, "message"),
                                 Str("Failed to generate response"))))
    ELSE IF ~o.body.parses THEN JsonSyntaxError
    ELSE IF Nullish(o.body.data) THEN TypeErrorReading("provider")
    ELSE Return(Get(o.body.data, "response"))

\* The catch block of generateResponse.
BackendCatch(ve, prompt, err) ==
    IF err.name = "TypeError" /\ Includes(err.message, "fetch")
    THEN Return(Str(AIClient_getFallbackResponse(ve, prompt,
             Str("Backend server is not running. Please start the backend server."))))
    ELSE Return(Str(AIClient_getFallbackResponse(ve, prompt, Str(err.message))))

\* How the call function of the awaited fetch ends on o.
ClientCall(target, o) ==
    CASE target = "claude" -> AIClient_callClaudeAPI(o)
      [] target = "openai" -> AIClient_callOpenAIAPI(o)
      [] OTHER -> BackendTry(o)

\* The rest of the client's generateResponse after the awaited fetch (made
\* for `provider`) ended with r.
AfterFetch(ve, prompt, target, provider, r) ==
    IF r.ok THEN Settle(r)
    ELSE IF target = "backend" THEN Settle(BackendCatch(ve, prompt, r))
    ELSE DirectCatch(ve, prompt, provider, r)

(***************************************************************************)
(* The inputs of the model: the process environment, the request bodies    *)
(* and what each provider call can do.                                     *)
(***************************************************************************)
AnswerText == "Get a business license."

ProviderEnvs ==
    [ CUSTOM_API_KEY : {Undefined, Str("your-api-key-here"), Str("custom-key-0123456789")},
      CUSTOM_API_BASE_URL : {Undefined, Str("https://llm.example.com")},
      CUSTOM_API_FORMAT : {Undefined, Str("claude"), Str("custom")},
      CUSTOM_API_ENDPOINT : {Undefined},
      CUSTOM_API_MODEL : {Undefined},
      CUSTOM_API_HEADER_PREFIX : {Undefined},
      GEMINI_API_KEY : {Undefined, Str("gemini-key-0123456789")},
      CLAUDE_API_KEY : {Str("short"), Str("sk-ant-key-0123456789")},
      OPENAI_API_KEY : {Str("   "), Str("sk-openai-key-0123456789")},
      USE_BACKEND_API_KEYS : {Undefined, Str("false"), Str("true")},
      NODE_ENV : {Undefined} ]

\* Values a credential variable can hold: unset, empty, blank, placeholders
\* in several cases, keys around the minimum length, and values with
\* surrounding white space (a quoted value of .env, an exported variable).
KeyChoices ==
    { Undefined, Str(""), Str("   "),
      Str("your-api-key-here"), Str("YOUR-API-KEY-HERE"), Str("Sk-Placeholder"),
      Str("example-key"),
      Str("short"), Str("123456789"), Str("1234567890"),
      Str("a-real-looking-key-of-sufficient-length"),
      Str("  your-api-key-here  "), Str(" sk-openai-key-0123456789 "),
      Str("  short12  ") }

\* Servers on which OpenAI is the only provider and its key is any of KeyChoices.
KeyEnvs ==
    { [ CUSTOM_API_KEY |-> Undefined, CUSTOM_API_BASE_URL |-> Undefined,
        CUSTOM_API_FORMAT |-> Undefined, CUSTOM_API_ENDPOINT |-> Undefined,
        CUSTOM_API_MODEL |-> Undefined, CUSTOM_API_HEADER_PREFIX |-> Undefined,
        GEMINI_API_KEY |-> Undefined, CLAUDE_API_KEY |-> Undefined,
        OPENAI_API_KEY |-> k, USE_BACKEND_API_KEYS |-> Str("true"),
        NODE_ENV |-> Undefined ] : k \in KeyChoices }

\* Values of CUSTOM_API_HEADER_PREFIX: unset and empty (the default, Bearer),
\* the documented ones, the api-key of the guide's Azure example, Bearer in
\* lower case, and an arbitrary one.
HeaderPrefixChoices ==
    { Undefined, Str(""), Str("Bearer"), Str("x-api-key"), Str("API-Key"),
      Str("api-key"), Str("bearer"), Str("MyAuth") }

\* Servers on which the custom provider is the only one, with each header prefix.
HeaderEnvs ==
    { [ CUSTOM_API_KEY |-> Str("custom-key-0123456789"),
        CUSTOM_API_BASE_URL |-> Str("https://llm.example.com"),
        CUSTOM_API_FORMAT |-> Undefined, CUSTOM_API_ENDPOINT |-> Undefined,
        CUSTOM_API_MODEL |-> Undefined, CUSTOM_API_HEADER_PREFIX |-> h,
        GEMINI_API_KEY |-> Undefined, CLAUDE_API_KEY |-> Undefined,
        OPENAI_API_KEY |-> Undefined, USE_BACKEND_API_KEYS |-> Str("true"),
        NODE_ENV |-> Undefined ] : h \in HeaderPrefixChoices }

EnvChoices == ProviderEnvs \cup KeyEnvs \cup HeaderEnvs

\* req.body after express.json(): an object whose prompt and context may be
\* missing or of any JSON type.
Bodies ==
    [ prompt : {Undefined, Str(""), Num(42), Str("Hi"), Str("What licenses do I need?")},
      context : {Undefined, Str("A bakery in Ohio")} ]

OpenAIShaped(text) ==
    Obj([choices |-> Arr(<<Obj([message |-> Obj([content |-> text])])>>)])
ClaudeShaped(text) == Obj([content |-> Arr(<<Obj([text |-> text])>>)])
ErrorBody(m) == JsonBody(Obj([error |-> Obj([message |-> Str(m)])]))

CustomOutcomes ==
    { FetchRejects("FetchError", "request to https://llm.example.com/chat/completions failed, reason: connect ECONNREFUSED"),
      Response(401, "Unauthorized", ErrorBody("Invalid API key")),
      Response(429, "Too Many Requests", NotJson),
      Response(500, "Internal Server Error", JsonBody(Null)),
      Response(200, "OK", NotJson),
      Response(200, "OK", JsonBody(Null)),
      Response(200, "OK", JsonBody(EmptyObj)),
      Response(200, "OK", JsonBody(OpenAIShaped(Str(AnswerText)))),
      Response(200, "OK", JsonBody(OpenAIShaped(Str("")))),
      Response(200, "OK", JsonBody(ClaudeShaped(Str(AnswerText)))),
      Response(200, "OK", JsonBody(Obj([response |-> Str(AnswerText)]))),
      Response(200, "OK", JsonBody(Obj([message |-> Str(AnswerText)]))),
      Response(200, "OK", JsonBody(ClaudeShaped(Str("")))),
      Response(200, "OK", JsonBody(Obj([response |-> Str(""),
                                        message |-> Str(AnswerText)]))),
      Response(200, "OK", JsonBody(Obj([
          choices |-> Arr(<<Obj([message |-> Obj([content |-> Str(AnswerText)])])>>),
          content |-> Arr(<<Obj([text |-> Str(AnswerText)])>>),
          response |-> Str("Secondary text")]))) }

GeminiOutcomes ==
    { FetchRejects("Error", "[GoogleGenerativeAI Error]: API key not valid. Please pass a valid API key."),
      SdkText("Gemini: " \o AnswerText),
      SdkText("") }

ClaudeOutcomes ==
    { FetchRejects("FetchError", "request to https://api.anthropic.com/v1/messages failed, reason: getaddrinfo ENOTFOUND"),
      Response(401, "Unauthorized", ErrorBody("invalid x-api-key")),
      Response(200, "OK", JsonBody(EmptyObj)),
      Response(200, "OK", JsonBody(ClaudeShaped(Str("Claude: " \o AnswerText)))),
      Response(200, "OK", JsonBody(Obj([content |-> Arr(<<EmptyObj>>)]))) }

OpenAIOutcomes ==
    { FetchRejects("FetchError", "request to https://api.openai.com/v1/chat/completions failed, reason: socket hang up"),
      Response(429, "Too Many Requests", ErrorBody("You exceeded your rate limit")),
      Response(200, "OK", NotJson),
      Response(200, "OK", JsonBody(OpenAIShaped(Str("OpenAI: " \o AnswerText)))),
      Response(200, "OK", JsonBody(OpenAIShaped(Null))) }

\* The environment of a server process whose state is not under study.
\* useState({ claude: '', openai: '', provider: '' }), also the default of
\* getSetting('userApiKeys', ...).
NoUserKeys == [claude |-> Str(""), openai |-> Str(""), provider |-> Str("")]

\* DocumentTabs: whether the close button of tab tabId is rendered when n
\* tabs are available (onTabClose is always passed).
CloseButton(n, tabId) == n > 1 /\ tabId # "businessPlan"

\* The prompt sendChatMessage builds for a message when the form is empty
\* and no document is generated or attached (the context is '').
ChatPrompt(message) ==
    "You are a helpful business consultant with access to the user's business information. The user asked: \""
    \o message \o "\"\n\n"
    \o "Provide general business advice since no specific business context is available."
    \o "\n\nPlease provide helpful, specific advice. Keep your response concise but actionable."

\* The setting userApiKeys of the appSettings table when the page loads:
\* none, or keys saved in an earlier visit.
StoredKeyChoices ==
    { Undefined,
      [claude |-> Str("sk-ant-saved-key"), openai |-> Str(""), provider |-> Str("claude")],
      [claude |-> Str(""), openai |-> Str("sk-saved-openai-key"), provider |-> Str("openai")] }

\* The tables of VentureMapDB that hold plans and what refers to them.
Tables(d) ==
    [ businessPlans |-> d.businessPlans, chatSessions |-> d.chatSessions,
      chatMessages |-> d.chatMessages, uploadedDocuments |-> d.uploadedDocuments ]

\* The database when the page loads: empty, or with two plans of one name
\* (one per template), each with a chat session, a message and a document,
\* and a session, a message and a document of no plan.  schemaOk is FALSE
\* for a database that lacks the object store uploadedDocuments, on which a
\* transaction over the four tables fails ('object store was not found').
DbChoices ==
    LET plans == { [id |-> 1, name |-> "Acme", template |-> "standard",
                    createdAt |-> 0, updatedAt |-> 0],
                   [id |-> 2, name |-> "Acme", template |-> "lean",
                    createdAt |-> 0, updatedAt |-> 0] }
        sessions == { [id |-> 1, businessPlanId |-> Num(1)],
                      [id |-> 2, businessPlanId |-> Num(2)],
                      [id |-> 3, businessPlanId |-> Undefined] }
        messages == { [id |-> 1, sessionId |-> 1], [id |-> 2, sessionId |-> 2],
                      [id |-> 3, sessionId |-> 3] }
        documents == { [id |-> 1, businessPlanId |-> Num(1)],
                       [id |-> 2, businessPlanId |-> Num(2)],
                       [id |-> 3, businessPlanId |-> Undefined] }
        idle == [c \in {"savePlan", "autoSavePlan"} |-> Null]
        none == [name |-> "open"]
    IN  { [ businessPlans |-> {}, chatSessions |-> {}, chatMessages |-> {},
            uploadedDocuments |-> {}, schemaOk |-> TRUE, nextId |-> 1, clock |-> 1,
            saves |-> idle, op |-> none ] }
        \cup
        { [ businessPlans |-> plans, chatSessions |-> sessions, chatMessages |-> messages,
            uploadedDocuments |-> IF ok THEN documents ELSE {}, schemaOk |-> ok,
            nextId |-> 3, clock |-> 1, saves |-> idle, op |-> none ] : ok \in BOOLEAN }

\* dotenv.config(): every variable of the .env file that the process
\* environment does not hold is added to it; none is overridden.
DotenvConfigured(e, file) ==
    [k \in DOMAIN e |-> IF e[k] = Undefined /\ k \in DOMAIN file THEN file[k] ELSE e[k]]

\* The .env file: absent or empty, or with the keys of some providers.
DotenvFiles ==
    { <<>>,
      [CLAUDE_API_KEY |-> Str("sk-ant-file-key-0123456789")],
      [OPENAI_API_KEY |-> Str("sk-file-key-0123456789"), USE_BACKEND_API_KEYS |-> Str("true")],
      [CUSTOM_API_KEY |-> Str("custom-key-0123456789"),
       CUSTOM_API_BASE_URL |-> Str("https://llm.example.com"),
       GEMINI_API_KEY |-> Str("gemini-file-key-0123456789")] }

\* What GET <baseUrl>/health of the custom provider can do.
HealthProbeOutcomes ==
    { FetchRejects("FetchError", "connect ECONNREFUSED"),
      Response(200, "OK", NotJson),
      Response(204, "No Content", NotJson),
      Response(404, "Not Found", NotJson),
      Response(503, "Service Unavailable", NotJson) }

DefaultEnv ==
    [ CUSTOM_API_KEY |-> Undefined, CUSTOM_API_BASE_URL |-> Undefined,
      CUSTOM_API_FORMAT |-> Undefined, CUSTOM_API_ENDPOINT |-> Undefined,
      CUSTOM_API_MODEL |-> Undefined, CUSTOM_API_HEADER_PREFIX |-> Undefined,
      GEMINI_API_KEY |-> Undefined, CLAUDE_API_KEY |-> Str("short"),
      OPENAI_API_KEY |-> Str("   "), USE_BACKEND_API_KEYS |-> Undefined,
      NODE_ENV |-> Undefined ]

\* import.meta.env of the browser build.
ViteEnvChoices ==
    [ VITE_BACKEND_URL : {Undefined},
      VITE_DEVELOPER_MODE : {Undefined, Str("false")} ]

DefaultViteEnv == [VITE_BACKEND_URL |-> Undefined, VITE_DEVELOPER_MODE |-> Undefined]

\* What the API-key modal can hand to setUserApiKeys: a provider with its
\* key, a provider without its key, an unknown provider, no provider.
UserKeyChoices ==
    { [claude |-> Str("sk-ant-user-key"), openai |-> Str(""), provider |-> Str("claude")],
      [claude |-> Str(""), openai |-> Str("sk-user-openai-key"), provider |-> Str("openai")],
      [claude |-> Str(""), openai |-> Str("sk-user-openai-key"), provider |-> Str("claude")],
      [claude |-> Str("sk-ant-user-key"), openai |-> Str(""), provider |-> Str("gemini")],
      [claude |-> Str("sk-ant-user-key"), openai |-> Str(""), provider |-> Str("")] }

ClientPrompts == {Str("Hi"), Str("What licenses do I need?")}
ClientContexts == {Undefined, Str("A bakery in Ohio")}

\* A response body with its raw text, as response.text() and response.json() see it.
TextNotJson(text) == [parses |-> FALSE, text |-> text]
TextJson(text, d) == [parses |-> TRUE, data |-> d, text |-> text]

DirectClaudeOutcomes ==
    { FetchRejects("TypeError", "Failed to fetch"),
      Response(401, "", TextJson("{\"error\":{\"message\":\"invalid x-api-key\"}}",
                                 Obj([error |-> Obj([message |-> Str("invalid x-api-key")])]))),
      Response(529, "", TextNotJson("Overloaded")),
      Response(200, "", TextNotJson("<html>")),
      Response(200, "", TextJson("{\"content\":[{\"text\":\"Get a business license.\"}]}",
                                 ClaudeShaped(Str(AnswerText)))),
      Response(200, "", TextJson("{\"content\":[{}]}", Obj([content |-> Arr(<<EmptyObj>>)]))) }

DirectOpenAIOutcomes ==
    { FetchRejects("TypeError", "Failed to fetch"),
      Response(429, "", TextNotJson("Too Many Requests")),
      Response(200, "", TextJson("{}", EmptyObj)),
      Response(200, "", TextJson("{\"choices\":[{\"message\":{\"content\":\"Get a business license.\"}}]}",
                                 OpenAIShaped(Str(AnswerText)))) }

\* What the fetch to the backend's /api/generate can do: the answers the
\* route gives, and those of a network or a proxy in between.
BackendOutcomes ==
    { FetchRejects("TypeError", "Failed to fetch"),
      FetchRejects("AbortError", "The user aborted a request."),
      Response(403, "Forbidden",
               TextJson("{\"error\":\"Backend API keys disabled\",...}",
                        Obj([error |-> Str("Backend API keys disabled"),
                             message |-> Str("Backend API keys are disabled. Please use frontend API keys."),
                             useBackendKeys |-> Bool(FALSE)]))),
      Response(502, "Bad Gateway", TextNotJson("<html>Bad Gateway</html>")),
      Response(500, "Internal Server Error", TextJson("null", Null)),
      Response(200, "OK", TextNotJson("<html>")),
      Response(200, "OK", TextJson("null", Null)),
      Response(200, "OK", TextJson("{\"provider\":\"Claude\"}",
                                   Obj([provider |-> Str("Claude")]))),
      Response(200, "OK", TextJson("{\"response\":\"Get a business license.\",\"provider\":\"Gemini\"}",
                                   Obj([response |-> Str(AnswerText),
                                        provider |-> Str("Gemini")]))) }

ClientOutcomes(target) ==
    CASE target = "claude" -> DirectClaudeOutcomes
      [] target = "openai" -> DirectOpenAIOutcomes
      [] OTHER -> BackendOutcomes

(***************************************************************************)
(* The state.  The server process and the browser application are two      *)
(* programs that share no memory; a behaviour is a behaviour of one of     *)
(* them, named by `program`, and the other's variables keep their initial  *)
(* value.                                                                  *)
(***************************************************************************)
VARIABLES
    program,    \* the part of the system that runs: "server" (POST /generate and
                \* GET /config), "health" (GET /health), "boot" (the start of the
                \* server process), "client" (AIClient), "ui" (the user's keys in
                \* the component), "chat", "db" (StorageService) or "tabs"
    \* the server process
    env,        \* process.env when routes/ai.js is evaluated
    aiService,  \* the AIService of routes/ai.js, built when the module loads
    pc,         \* the handler: "idle", "await" (a provider call) or "responded"
    req,        \* req.body of the request being handled (or last handled)
    calls,      \* the providers generateResponse has called for it, in order
    inflight,   \* the providers whose call has not ended yet
    sent,       \* the request built for each of `calls`, in the same order
    ended,      \* the calls that ended, in order, each with how it ended
    result,     \* the promise of generateResponse
    res,        \* the HTTP response sent (status 0: none yet)
    nRequests,  \* requests received so far
    configRes,  \* the answer of the last GET /config (status 0: none yet)
    \* the browser application
    viteEnv,     \* import.meta.env, fixed at build time
    userApiKeys, \* AIClient.userApiKeys
    cpc,         \* AIClient.generateResponse: "idle", "await" (a fetch) or "done"
    creq,        \* the prompt and context of the call in progress (or last made)
    fetches,     \* the fetches the call made, in order
    cended,      \* the fetches that ended, each with how it ended
    cresult,     \* the promise of AIClient.generateResponse
    nCalls,      \* generateResponse calls made so far
    keysAtCall,  \* userApiKeys when the call in progress (or last made) began
    keysDuring,  \* the userApiKeys last installed while that call awaited, if any
    \* GET /health
    health,      \* pc: "idle", "await" (the probe) or "responded"; probe: what the
                 \* probe did; res: the answer
    \* the start of the server process (server.js)
    boot,        \* pc: "imported" (the imports of server.js are evaluated),
                 \* "configured" (dotenv.config() has run) or "listening";
                 \* file: the .env file; processEnv: process.env as it is now
                 \* (env is what it was when routes/ai.js was evaluated);
                 \* singleton: AIService.instance
    \* BusinessPlanCreator, the component of the browser application
    ui,          \* (its keys in the program "ui", its chat in the program "chat", in
                 \* which the keys of the AIClient are those of an earlier save)
                 \* userApiKeys: the React state; stored: the setting userApiKeys of
                 \* IndexedDB; mount: "loading" or "loaded" (initializeDatabase);
                 \* saving: the keys handleSaveApiKeys is storing, or Null;
                 \* chatInput, chatMessages, isChatLoading: the React state of the chat
    \* VentureMapDB (IndexedDB) and the calls of StorageService
    db,          \* the tables; nextId: the next auto-incremented plan id; clock: the
                 \* time; saves: per caller, the saveBusinessPlan call between its
                 \* lookup and its write; op: the last operation, for an update
                 \* or a delete with the tables before it
    \* the document tabs of BusinessPlanCreator
    tabs         \* documents: the React state documents (document type -> content);
                 \* activeTab; op: the last handler, with the state before it

serverVars == <<env, aiService, pc, req, calls, inflight, sent, ended, result, res,
                nRequests, configRes>>
clientVars == <<viteEnv, userApiKeys, cpc, creq, fetches, cended, cresult, nCalls,
                keysAtCall, keysDuring>>
extVars == <<health, boot, ui, db, tabs>>
vars == <<program, serverVars, clientVars, extVars>>

NotCalled == [state |-> "none"]
NotSet == [t |-> "notset"]
Pending == [state |-> "pending"]
Settled(r) ==
    IF r.ok THEN [state |-> "fulfilled", v |-> r.v]
    ELSE [state |-> "rejected", message |-> r.message]

Init ==
    /\ program \in {"server", "client", "health", "boot", "ui", "db", "chat", "tabs"}
    /\ env \in (CASE program \in {"server", "health"} -> EnvChoices
                  [] program = "boot" -> KeyEnvs \cup {DefaultEnv}
                  [] OTHER -> {DefaultEnv})
    /\ aiService = NewAIService(env)
    /\ pc = "idle"
    /\ req = [prompt |-> Undefined, context |-> Undefined]
    /\ calls = <<>>
    /\ inflight = {}
    /\ sent = <<>>
    /\ ended = <<>>
    /\ result = NotCalled
    /\ res = NoResponse
    /\ nRequests = 0
    /\ configRes = NoResponse
    /\ viteEnv \in (IF program \in {"client", "ui", "chat"} THEN ViteEnvChoices
                     ELSE {DefaultViteEnv})
    /\ userApiKeys \in (IF program = "chat" THEN {Null} \cup UserKeyChoices ELSE {Null})
    /\ cpc = "idle"
    /\ creq = [prompt |-> Undefined, context |-> Undefined]
    /\ fetches = <<>>
    /\ cended = <<>>
    /\ cresult = NotCalled
    /\ nCalls = 0
    /\ keysAtCall = Null
    /\ keysDuring = NotSet
    /\ health = [pc |-> "idle", probe |-> NotProbed, res |-> NoResponse]
    /\ IF program = "boot"
       THEN \E file \in DotenvFiles :
                boot = [pc |-> "imported", file |-> file, processEnv |-> env,
                        singleton |-> Null]
       ELSE boot = [pc |-> "listening", file |-> <<>>, processEnv |-> env,
                    singleton |-> NewAIService(env)]
    /\ \E stored \in (IF program = "ui" THEN StoredKeyChoices ELSE {Undefined}) :
          ui = [userApiKeys |-> NoUserKeys, stored |-> stored, mount |-> "loading",
                saving |-> Null, chatInput |-> "", chatMessages |-> <<>>,
                isChatLoading |-> FALSE]
    /\ db \in (IF program = "db" THEN DbChoices
                ELSE {d \in DbChoices : d.businessPlans = {}})
    /\ tabs = [documents |-> <<>>, activeTab |-> "businessPlan", op |-> [name |-> "mount"]]

\* generateResponse has run to `step`: it awaits a provider call it has just
\* made, or it has settled and the handler answers.
Proceed(step, callsBefore, inflightBefore) ==
    IF step.kind = "await"
    THEN /\ pc' = "await"
         /\ calls' = Append(callsBefore, step.provider)
         /\ inflight' = inflightBefore \cup {step.provider}
         /\ result' = Pending
         /\ res' = NoResponse
    ELSE /\ pc' = "responded"
         /\ calls' = callsBefore
         /\ inflight' = inflightBefore
         /\ result' = Settled(step.r)
         /\ res' = Respond(aiService, env, step.r)

\* router.post('/generate'): a request arrives; the handler runs to its
\* answer or to the first provider call generateResponse awaits.
PostGenerate ==
    /\ program = "server"
    /\ pc # "await"
    /\ nRequests < MaxRequests
    /\ \E body \in Bodies :
        /\ req' = body
        /\ ended' = <<>>
        /\ IF RouteDecision(env, body) # 0
           THEN /\ pc' = "responded"
                /\ calls' = <<>>
                /\ inflight' = {}
                /\ result' = NotCalled
                /\ res' = RejectResponse(RouteDecision(env, body))
           ELSE Proceed(FromCustom(aiService, body.prompt), <<>>, {})
    /\ sent' = [i \in DOMAIN calls' |->
                   RequestOf(aiService, calls'[i], req'.prompt, req'.context)]
    /\ nRequests' = nRequests + 1
    /\ UNCHANGED <<program, env, aiService, configRes, clientVars, extVars>>

\* What provider p's call can do, and how the call function ends on it.
Outcomes(p) ==
    CASE p = "Custom API" -> CustomOutcomes
      [] p = "Gemini" -> GeminiOutcomes
      [] p = "Claude" -> ClaudeOutcomes
      [] OTHER -> OpenAIOutcomes

Call(p, svc, o) ==
    CASE p = "Custom API" -> callCustomAPI(svc, o)
      [] p = "Gemini" -> callGeminiAPI(svc, o)
      [] p = "Claude" -> callClaudeAPI(svc, o)
      [] OTHER -> callOpenAI(svc, o)

\* The awaited provider call ends (the network did o, the call function ends
\* with r) and generateResponse resumes: it returns, or calls the next
\* provider, or returns the fallback; when it settles the handler answers.
ProviderCallEnds ==
    /\ program = "server"
    /\ pc = "await"
    /\ \E p \in inflight : \E o \in Outcomes(p) :
        LET r == Call(p, aiService, o) IN
        /\ ended' = Append(ended, [provider |-> p, o |-> o, r |-> r])
        /\ Proceed(AfterCall(aiService, req.prompt, p, r), calls, inflight \ {p})
    /\ sent' = [i \in DOMAIN calls' |->
                   RequestOf(aiService, calls'[i], req.prompt, req.context)]
    /\ UNCHANGED <<program, env, aiService, req, nRequests, configRes, clientVars, extVars>>

\* router.get('/config'): synchronous, so it runs at any time, also while a
\* request to /generate awaits a provider.
GetConfig ==
    /\ program = "server"
    /\ configRes' = ConfigResponse(aiService, env)
    /\ UNCHANGED <<program, env, aiService, pc, req, calls, inflight, sent, ended, result,
                   res, nRequests, clientVars, extVars>>

\* The client's generateResponse has run to `step`: it awaits a fetch it has
\* just made, or it has settled.
ClientProceed(step, fetchesBefore) ==
    IF step.kind = "await"
    THEN /\ cpc' = "await"
         /\ fetches' = Append(fetchesBefore,
                              [target |-> step.target, credential |-> step.credential])
         /\ cresult' = Pending
    ELSE /\ cpc' = "done"
         /\ fetches' = fetchesBefore
         /\ cresult' = Settled(step.r)

\* AIClient.setUserApiKeys(keys)
SetUserApiKeys ==
    /\ program = "client"
    /\ \E keys \in UserKeyChoices : userApiKeys' = keys
    /\ keysDuring' = IF cpc = "await" THEN userApiKeys' ELSE keysDuring
    /\ UNCHANGED <<program, serverVars, viteEnv, cpc, creq, fetches, cended, cresult, nCalls,
                   keysAtCall, extVars>>

\* AIClient.clearUserApiKeys()
ClearUserApiKeys ==
    /\ program = "client"
    /\ userApiKeys' = Null
    /\ keysDuring' = IF cpc = "await" THEN Null ELSE keysDuring
    /\ UNCHANGED <<program, serverVars, viteEnv, cpc, creq, fetches, cended, cresult, nCalls,
                   keysAtCall, extVars>>

\* AIClient.generateResponse(prompt, context) is called and runs to its
\* return or to the fetch it awaits.
ClientGenerate ==
    /\ program = "client"
    /\ cpc # "await"
    /\ nCalls < MaxCalls
    /\ \E prompt \in ClientPrompts, context \in ClientContexts :
        /\ creq' = [prompt |-> prompt, context |-> context]
        /\ ClientProceed(AIClient_generateResponse(userApiKeys, viteEnv, prompt), <<>>)
    /\ cended' = <<>>
    /\ nCalls' = nCalls + 1
    /\ keysAtCall' = userApiKeys
    /\ keysDuring' = NotSet
    /\ UNCHANGED <<program, serverVars, viteEnv, userApiKeys, extVars>>

\* The awaited fetch ends and the client's generateResponse resumes.  The
\* provider named in the catch of generateDirectResponse is the one it read
\* before the call: the request's target.
ClientFetchEnds ==
    /\ program \in {"client", "chat"}
    /\ cpc = "await"
    /\ LET f == fetches[Len(fetches)] IN
       \E o \in ClientOutcomes(f.target) :
        LET r == ClientCall(f.target, o) IN
        /\ cended' = Append(cended, [target |-> f.target, o |-> o, r |-> r])
        /\ ClientProceed(AfterFetch(viteEnv, creq.prompt, f.target, Str(f.target), r),
                         fetches)
    /\ UNCHANGED <<program, serverVars, viteEnv, userApiKeys, creq, nCalls, keysAtCall,
                   keysDuring, extVars>>

\* router.get('/health'): the handler calls healthCheck, which probes the
\* custom provider when it is configured and awaits the probe; otherwise it
\* returns at once and the handler answers.
GetHealth ==
    /\ program = "health"
    /\ health.pc # "await"
    /\ health' = IF CustomConfigured(aiService)
                 THEN [pc |-> "await", probe |-> NotProbed, res |-> NoResponse]
                 ELSE [pc |-> "responded", probe |-> NotProbed,
                       res |-> HealthResponse(env, healthCheck(aiService, NotProbed))]
    /\ UNCHANGED <<program, serverVars, clientVars, boot, ui, db, tabs>>

\* The probe ends; healthCheck returns and the handler answers.
HealthProbeEnds ==
    /\ program = "health"
    /\ health.pc = "await"
    /\ \E o \in HealthProbeOutcomes :
        health' = [pc |-> "responded", probe |-> o,
                   res |-> HealthResponse(env, healthCheck(aiService, o))]
    /\ UNCHANGED <<program, serverVars, clientVars, boot, ui, db, tabs>>

\* server.js, after its imports: dotenv.config().
DotenvConfig ==
    /\ program = "boot"
    /\ boot.pc = "imported"
    /\ boot' = [boot EXCEPT !.pc = "configured",
                             !.processEnv = DotenvConfigured(@, boot.file)]
    /\ UNCHANGED <<program, serverVars, clientVars, health, ui, db, tabs>>

\* The callback of app.listen: AIService.getInstance() constructs the
\* singleton from the process environment as it is now.
Listen ==
    /\ program = "boot"
    /\ boot.pc = "configured"
    /\ boot' = [boot EXCEPT !.pc = "listening",
                             !.singleton = NewAIService(boot.processEnv)]
    /\ UNCHANGED <<program, serverVars, clientVars, health, ui, db, tabs>>

\* initializeDatabase of the mount effect ends: the saved keys are put in
\* the React state (the AIClient singleton is not touched); when a read of
\* the database fails the catch leaves the state as it is.
InitializeDatabase ==
    /\ program = "ui"
    /\ ui.mount = "loading"
    /\ \E readOk \in BOOLEAN :
        ui' = [ui EXCEPT !.mount = "loaded",
                         !.userApiKeys =
                            IF ~readOk THEN @
                            ELSE IF ui.stored = Undefined THEN NoUserKeys ELSE ui.stored]
    /\ UNCHANGED <<program, serverVars, clientVars, health, boot, db, tabs>>

\* handleSaveApiKeys(keys) up to `await StorageService.setSetting`: the keys
\* are in the React state and the modal is closed.
HandleSaveApiKeys ==
    /\ program = "ui"
    /\ ui.saving = Null
    /\ \E keys \in UserKeyChoices :
        ui' = [ui EXCEPT !.userApiKeys = keys, !.saving = keys]
    /\ UNCHANGED <<program, serverVars, clientVars, health, boot, db, tabs>>

\* setSetting ends.  When it stored the keys, handleSaveApiKeys goes on to
\* aiClient.setUserApiKeys(keys); when it threw, handleSaveApiKeys ends there.
SaveApiKeysStored ==
    /\ program = "ui"
    /\ ui.saving # Null
    /\ \E stored \in BOOLEAN :
        /\ ui' = [ui EXCEPT !.saving = Null,
                            !.stored = IF stored THEN ui.saving ELSE @]
        /\ userApiKeys' = IF stored THEN ui.saving ELSE userApiKeys
    /\ UNCHANGED <<program, serverVars, viteEnv, cpc, creq, fetches, cended, cresult, nCalls,
                   keysAtCall, keysDuring, health, boot, db, tabs>>

\* savePlan or autoSavePlan calls StorageService.saveBusinessPlan with the
\* name and the template of the form (here the business Acme, template
\* standard) and with createdAt and updatedAt set to
\* now; saveBusinessPlan takes its timestamp and its lookup returns the first
\* plan of that name and template, if any.
SaveBusinessPlan ==
    /\ program = "db"
    /\ db.clock <= MaxSaves
    /\ \E caller \in DOMAIN db.saves :
        /\ db.saves[caller] = Null
        /\ LET plan == [name |-> "Acme", template |-> "standard",
                        createdAt |-> db.clock, updatedAt |-> db.clock]
               found == {p \in db.businessPlans :
                            p.name = plan.name /\ p.template = plan.template}
               existing == IF found = {} THEN Undefined
                           ELSE Num(CHOOSE id \in {p.id : p \in found} :
                                        \A p \in found : id <= p.id)
           IN  db' = [db EXCEPT
                        !.saves[caller] = [plan |-> plan, existing |-> existing,
                                           timestamp |-> db.clock],
                        !.clock = @ + 1,
                        !.op = [name |-> "lookup"]]
    /\ UNCHANGED <<program, serverVars, clientVars, health, boot, ui, tabs>>

\* The write of a saveBusinessPlan call: businessPlans.update of the plan
\* found (no change when that plan is gone), or businessPlans.add.
SaveBusinessPlanWrites ==
    /\ program = "db"
    /\ \E caller \in DOMAIN db.saves :
        /\ db.saves[caller] # Null
        /\ LET call == db.saves[caller] IN
           IF Truthy(call.existing)
           THEN db' = [db EXCEPT
                   !.businessPlans =
                       {IF p.id = call.existing.n
                        THEN [p EXCEPT !.name = call.plan.name,
                                       !.template = call.plan.template,
                                       !.createdAt = call.plan.createdAt,
                                       !.updatedAt = call.timestamp]
                        ELSE p : p \in db.businessPlans},
                   !.saves[caller] = Null,
                   !.op = [name |-> "update", id |-> call.existing.n,
                           before |-> Tables(db)]]
           ELSE db' = [db EXCEPT
                   !.businessPlans =
                       @ \cup {[id |-> db.nextId, name |-> call.plan.name,
                                template |-> call.plan.template,
                                createdAt |-> call.timestamp,
                                updatedAt |-> call.timestamp]},
                   !.nextId = @ + 1,
                   !.saves[caller] = Null,
                   !.op = [name |-> "add", id |-> db.nextId]]
    /\ UNCHANGED <<program, serverVars, clientVars, health, boot, ui, tabs>>

\* StorageService.deleteBusinessPlan(id).  The transaction over the four
\* tables commits; or it fails on a missing object store, and the catch
\* recreates the database (db.delete(), db.open()) and deletes the plan; or
\* it fails otherwise, nothing is changed and the error is thrown again.
DeleteBusinessPlan ==
    /\ program = "db"
    /\ \E id \in 1..3, failsOtherwise \in BOOLEAN :
        LET sessions == {x \in db.chatSessions : x.businessPlanId = Num(id)}
            op(path) == [name |-> "deleteBusinessPlan", id |-> id, path |-> path,
                         before |-> Tables(db)]
        IN
        IF ~db.schemaOk
        THEN db' = [db EXCEPT !.businessPlans = {}, !.chatSessions = {},
                              !.chatMessages = {}, !.uploadedDocuments = {},
                              !.schemaOk = TRUE, !.nextId = 1, !.op = op("recreated")]
        ELSE IF failsOtherwise
        THEN db' = [db EXCEPT !.op = op("thrown")]
        ELSE db' = [db EXCEPT
                !.businessPlans = {p \in @ : p.id # id},
                !.chatMessages = {m \in @ : \A x \in sessions : m.sessionId # x.id},
                !.chatSessions = @ \ sessions,
                !.uploadedDocuments =
                    {IF d.businessPlanId = Num(id)
                     THEN [d EXCEPT !.businessPlanId = Undefined] ELSE d : d \in @},
                !.op = op("committed")]
    /\ UNCHANGED <<program, serverVars, clientVars, health, boot, ui, tabs>>

\* StorageService.deleteChatSession(sessionId): one transaction.
DeleteChatSession ==
    /\ program = "db"
    /\ \E sessionId \in 1..3 :
        db' = [db EXCEPT
                !.chatMessages = {m \in @ : m.sessionId # sessionId},
                !.chatSessions = {x \in @ : x.id # sessionId},
                !.op = [name |-> "deleteChatSession", id |-> sessionId,
                        before |-> Tables(db)]]
    /\ UNCHANGED <<program, serverVars, clientVars, health, boot, ui, tabs>>

\* The user edits the chat input.
SetChatInput ==
    /\ program = "chat"
    /\ \E text \in {"", "  ", " Hi "} : ui' = [ui EXCEPT !.chatInput = text]
    /\ UNCHANGED <<program, serverVars, clientVars, health, boot, db, tabs>>

\* A sendChatMessage that does not look at isChatLoading (not the code's).
SendChatMessageWhileLoading ==
    /\ program = "chat"
    /\ Trim(ui.chatInput) # ""
    /\ nCalls < MaxCalls
    /\ ui' = [ui EXCEPT !.chatMessages = Append(@, [type |-> "user",
                                                   message |-> Str(Trim(ui.chatInput))]),
                        !.chatInput = "",
                        !.isChatLoading = TRUE]
    /\ creq' = [prompt |-> Str(ChatPrompt(Trim(ui.chatInput))), context |-> Str("")]
    /\ ClientProceed(AIClient_generateResponse(userApiKeys, viteEnv, creq'.prompt), <<>>)
    /\ cended' = <<>>
    /\ nCalls' = nCalls + 1
    /\ keysAtCall' = userApiKeys
    /\ keysDuring' = NotSet
    /\ UNCHANGED <<program, serverVars, viteEnv, userApiKeys, health, boot, db, tabs>>

\* sendChatMessage up to `await aiClient.generateResponse`.  With a blank
\* input or while isChatLoading it returns at once and changes nothing.
SendChatMessage ==
    /\ program = "chat"
    /\ Trim(ui.chatInput) # ""
    /\ ~ui.isChatLoading
    /\ nCalls < MaxCalls
    /\ ui' = [ui EXCEPT !.chatMessages = Append(@, [type |-> "user",
                                                   message |-> Str(Trim(ui.chatInput))]),
                        !.chatInput = "",
                        !.isChatLoading = TRUE]
    /\ creq' = [prompt |-> Str(ChatPrompt(Trim(ui.chatInput))), context |-> Str("")]
    /\ ClientProceed(AIClient_generateResponse(userApiKeys, viteEnv, creq'.prompt), <<>>)
    /\ cended' = <<>>
    /\ nCalls' = nCalls + 1
    /\ keysAtCall' = userApiKeys
    /\ keysDuring' = NotSet
    /\ UNCHANGED <<program, serverVars, viteEnv, userApiKeys, health, boot, db, tabs>>

\* The rest of sendChatMessage once generateResponse has settled: the bot
\* message with the response, or with the notice of the inner catch when the
\* call threw; then the finally block.
ChatReply ==
    /\ program = "chat"
    /\ ui.isChatLoading
    /\ cpc = "done"
    /\ ui' = [ui EXCEPT
          !.chatMessages = Append(@, [type |-> "bot", message |->
              IF cresult.state = "fulfilled" THEN cresult.v
              ELSE Str("I'm having trouble connecting to my AI service. Please check your backend server connection and API configuration.")]),
          !.isChatLoading = FALSE]
    /\ UNCHANGED <<program, serverVars, clientVars, health, boot, db, tabs>>

\* A document is generated or cleared: setDocuments(prev => ({...prev,
\* [type]: content})); generating the pitch deck first makes its tab active.
SetDocument ==
    /\ program = "tabs"
    /\ \E type \in {"businessPlan", "pitchDeck"}, content \in {"", "# Plan", "# Deck"} :
        tabs' = [documents |-> (type :> content) @@ tabs.documents,
                 activeTab |-> type,
                 op |-> [name |-> "setDocuments"]]
    /\ UNCHANGED <<program, serverVars, clientVars, health, boot, ui, db>>

\* handleTabChange(newTab)
HandleTabChange ==
    /\ program = "tabs"
    /\ \E newTab \in {"businessPlan", "pitchDeck"} :
        tabs' = [tabs EXCEPT !.activeTab = newTab, !.op = [name |-> "handleTabChange"]]
    /\ UNCHANGED <<program, serverVars, clientVars, health, boot, ui, db>>

\* A handleTabClose without the check for the business-plan tab (not the code's).
HandleTabCloseAny ==
    /\ program = "tabs"
    /\ \E tabId \in {"businessPlan", "pitchDeck"} :
        tabs' = [documents |-> [t \in DOMAIN tabs.documents \ {tabId} |-> tabs.documents[t]],
                 activeTab |-> IF tabs.activeTab = tabId THEN "businessPlan"
                               ELSE tabs.activeTab,
                 op |-> [name |-> "handleTabClose", tabId |-> tabId,
                         before |-> [documents |-> tabs.documents,
                                     activeTab |-> tabs.activeTab]]]
    /\ UNCHANGED <<program, serverVars, clientVars, health, boot, ui, db>>

\* handleTabClose(tabId)
HandleTabClose ==
    /\ program = "tabs"
    /\ \E tabId \in {"businessPlan", "pitchDeck"} :
        LET op == [name |-> "handleTabClose", tabId |-> tabId,
                   before |-> [documents |-> tabs.documents,
                               activeTab |-> tabs.activeTab]]
        IN
        IF tabId = "businessPlan"
        THEN tabs' = [tabs EXCEPT !.op = op]
        ELSE tabs' = [documents |-> [t \in DOMAIN tabs.documents \ {tabId} |->
                                        tabs.documents[t]],
                      activeTab |-> IF tabs.activeTab = tabId THEN "businessPlan"
                                    ELSE tabs.activeTab,
                      op |-> op]
    /\ UNCHANGED <<program, serverVars, clientVars, health, boot, ui, db>>

Next ==
    \/ PostGenerate
    \/ ProviderCallEnds
    \/ GetConfig
    \/ SetUserApiKeys
    \/ ClearUserApiKeys
    \/ ClientGenerate
    \/ ClientFetchEnds
    \/ GetHealth
    \/ HealthProbeEnds
    \/ DotenvConfig
    \/ Listen
    \/ InitializeDatabase
    \/ HandleSaveApiKeys
    \/ SaveApiKeysStored
    \/ SetChatInput
    \/ SendChatMessage
    \/ ChatReply
    \/ SaveBusinessPlan
    \/ SaveBusinessPlanWrites
    \/ DeleteBusinessPlan
    \/ DeleteChatSession
    \/ SetDocument
    \/ HandleTabChange
    \/ HandleTabClose

Spec == Init /\ [][Next]_vars

\* The behaviours in which every awaited provider call and every awaited
\* fetch ends (returns or throws).  The code sets no timeout on them, so this
\* is an assumption about the network, stated as fairness.  The rest of
\* sendChatMessage runs once the promise it awaits has settled.
FairSpec ==
    Spec /\ WF_vars(ProviderCallEnds) /\ WF_vars(ClientFetchEnds) /\ WF_vars(ChatReply)

(***************************************************************************)
(* Vocabulary of the claims.                                               *)
(***************************************************************************)
ProviderNames == {"Custom API", "Gemini", "Claude", "OpenAI"}

\* The documented priority: Custom API, Gemini, Claude, OpenAI.
Rank(p) ==
    CASE p = "Custom API" -> 1 [] p = "Gemini" -> 2 [] p = "Claude" -> 3 [] OTHER -> 4

\* The provider's credential passed validation (and the custom provider has
\* a base URL).
Configured(p) ==
    CASE p = "Custom API" -> CustomConfigured(aiService)
      [] p = "Gemini" -> Truthy(aiService.geminiApiKey)
      [] p = "Claude" -> Truthy(aiService.claudeApiKey)
      [] OTHER -> Truthy(aiService.openaiApiKey)

\* The values a 2xx JSON body holds at the places the provider's text is
\* read from.
TextLocations(p, data) ==
    CASE p = "Claude" -> {OptGet(OptAt0(OptGet(data, "content")), "text")}
      [] p = "OpenAI" ->
           {OptGet(OptGet(OptAt0(OptGet(data, "choices")), "message"), "content")}
      [] aiService.customConfig.format = Str("openai") ->
           {OptGet(OptGet(OptAt0(OptGet(data, "choices")), "message"), "content"),
            OptGet(data, "response")}
      [] aiService.customConfig.format = Str("claude") ->
           {OptGet(OptAt0(OptGet(data, "content")), "text"), OptGet(data, "response")}
      [] OTHER ->
           {OptGet(data, "response"), OptGet(data, "content"), OptGet(data, "text"),
            OptGet(data, "message")}

\* An ended call whose response was 2xx with a body that is no JSON or has
\* the text at none of its places.
Malformed(e) ==
    /\ e.provider # "Gemini"
    /\ e.o.kind = "response"
    /\ Ok(e.o)
    /\ \/ ~e.o.body.parses
       \/ \A v \in TextLocations(e.provider, e.o.body.data) : Nullish(v)

\* generateResponse was called for the request and the handler has answered.
Answered == pc = "responded" /\ result.state # "none"

FallbackText == Str(getFallbackResponse(req.prompt))

(***************************************************************************)
(* C1.  generateResponse never throws and always returns a string: for     *)
(* every configuration and every outcome of the provider calls its promise *)
(* is never rejected, and when fulfilled its value is a string, one        *)
(* provider's text or the fallback text.                                   *)
(***************************************************************************)
C1_NeverThrowsReturnsString ==
    /\ result.state # "rejected"
    /\ result.state = "fulfilled" =>
         /\ result.v.t = "string"
         /\ \/ result.v = FallbackText
            \/ \E i \in DOMAIN ended : ended[i].r.ok /\ ended[i].r.v = result.v

\* Only Claude is called; it answers 200 with a content block that has no
\* text, and generateResponse returns undefined.
C1_Failing ==
    /\ Answered
    /\ calls = <<"Claude">>
    /\ ended[1].r.ok
    /\ result = [state |-> "fulfilled", v |-> Undefined]

C3_FirstMatchWins ==
    \A i \in DOMAIN ended :
        ended[i].r.ok =>
            /\ i = Len(ended)
            /\ Len(calls) = i
            /\ inflight = {}
            /\ pc = "responded"
            /\ result = [state |-> "fulfilled", v |-> ended[i].r.v]

\* The custom provider answered while Gemini was configured too, and Gemini
\* was not called.
C3_Witness ==
    /\ Answered
    /\ Configured("Gemini")
    /\ calls = <<"Custom API">>
    /\ ended[1].r.ok
    /\ result.v = Str(AnswerText)

(***************************************************************************)
(* C4.  Fixed priority order: the providers called for a request are       *)
(* called in the order Custom API, Gemini, Claude, OpenAI; a provider is   *)
(* called only if it is configured and every configured provider before it *)
(* in that order was called earlier for the same request and threw.        *)
(***************************************************************************)
C4_FixedPriorityOrder ==
    \A i \in DOMAIN calls :
        /\ Configured(calls[i])
        /\ \A j \in DOMAIN calls : j < i => Rank(calls[j]) < Rank(calls[i])
        /\ \A q \in ProviderNames :
              (Configured(q) /\ Rank(q) < Rank(calls[i])) =>
                  \E j \in DOMAIN ended :
                      j < i /\ ended[j].provider = q /\ ~ended[j].r.ok

\* All four providers are configured and were called, in the documented order.
C4_Witness == calls = <<"Custom API", "Gemini", "Claude", "OpenAI">>

(***************************************************************************)
(* C5.  A malformed response is a failure: a 2xx answer of the custom      *)
(* provider whose body has the text at none of the places of the           *)
(* configured format makes the call fail, and generateResponse never       *)
(* returns the placeholder or an empty text as that provider's answer.     *)
(***************************************************************************)
C5_MalformedIsFailure ==
    \A i \in DOMAIN ended :
        (ended[i].provider = "Custom API" /\ Malformed(ended[i])) =>
            /\ ~ended[i].r.ok
            /\ result.state = "fulfilled" => result.v \notin {NoResponseReceived, Str("")}

\* The custom provider answers 200 with {} while Gemini is configured too:
\* Gemini is not called and the placeholder is returned as the answer.
C5_Failing ==
    /\ Answered
    /\ Configured("Gemini")
    /\ calls = <<"Custom API">>
    /\ ended[1].o.kind = "response"
    /\ ended[1].o.status = 200
    /\ ended[1].o.body = JsonBody(EmptyObj)
    /\ result = [state |-> "fulfilled", v |-> NoResponseReceived]

(***************************************************************************)
(* C6.  The provider label of a 200 answer names the provider whose call   *)
(* returned the text, and is no provider's name when the text is the       *)
(* fallback.                                                               *)
(***************************************************************************)
C6_LabelNamesAnswerer ==
    (Answered /\ res.status = 200) =>
        IF ended # <<>> /\ ended[Len(ended)].r.ok
        THEN res.body.f.provider = Str(ended[Len(ended)].provider)
        ELSE \A p \in ProviderNames : res.body.f.provider # Str(p)

\* The custom provider's call threw, Gemini answered, and the 200 answer is
\* labelled "Custom API".
C6_Failing ==
    /\ Answered
    /\ res.status = 200
    /\ calls = <<"Custom API", "Gemini">>
    /\ ~ended[1].r.ok
    /\ ended[2].r.ok
    /\ res.body.f.response = ended[2].r.v
    /\ res.body.f.provider = Str("Custom API")

(***************************************************************************)
(* C7.  Sequential, no retry: at most one provider call is in flight, a    *)
(* provider is called at most once for a request, and a provider whose     *)
(* call ended is not in flight again.                                      *)
(***************************************************************************)
C7_SequentialNoRetry ==
    /\ Cardinality(inflight) <= 1
    /\ \A i, j \in DOMAIN calls : calls[i] = calls[j] => i = j
    /\ \A i \in DOMAIN ended : ended[i].provider \notin inflight
    /\ Len(calls) = Len(ended) + Cardinality(inflight)

\* A provider's call threw and the next provider's call is in flight.
C7_Witness ==
    /\ pc = "await"
    /\ Len(ended) >= 2
    /\ \A i \in DOMAIN ended : ~ended[i].r.ok
    /\ inflight = {"OpenAI"}

C9_Always200WithString ==
    ( /\ pc = "responded"
      /\ env.USE_BACKEND_API_KEYS = Str("true")
      /\ req.prompt.t = "string"
      /\ req.prompt.s # "" )
    => /\ res.status = 200
       /\ "response" \in DOMAIN res.body.f
       /\ res.body.f.response.t = "string"

\* A provider answered 200 without text and the 200 answer of the route has
\* no response member.
C9_Failing ==
    /\ Answered
    /\ env.USE_BACKEND_API_KEYS = Str("true")
    /\ req.prompt = Str("Hi")
    /\ res.status = 200
    /\ "response" \notin DOMAIN res.body.f

(***************************************************************************)
(* C10.  The fallback carries the reason: on the server, when every called *)
(* provider failed the fallback text holds the error message of the last   *)
(* failed call, and when no provider is configured it holds a generic 'not *)
(* configured' reason; on the client, when the direct call to the user's   *)
(* provider failed the fallback text holds that call's error message.      *)
(***************************************************************************)
C10_FallbackCarriesReason ==
    /\ (Answered /\ result.state = "fulfilled" /\ result.v = FallbackText) =>
          IF ended = <<>>
          THEN Includes(result.v.s, "configured")
          ELSE ~ended[Len(ended)].r.ok =>
                  Includes(result.v.s, ended[Len(ended)].r.message)
    /\ ( /\ cpc = "done"
         /\ cended # <<>>
         /\ cended[Len(cended)].target \in {"claude", "openai"}
         /\ ~cended[Len(cended)].r.ok )
       => /\ cresult.state = "fulfilled"
          /\ Includes(cresult.v.s, cended[Len(cended)].r.message)

\* Scenario C on the server: only the custom provider is configured, it
\* answers 401, and the fallback text does not hold the error of that call.
C10_Failing ==
    /\ Answered
    /\ calls = <<"Custom API">>
    /\ ended[1].o.kind = "response"
    /\ ended[1].o.status = 401
    /\ ended[1].r = Throw("Custom API error: 401 - Invalid API key")
    /\ result = [state |-> "fulfilled", v |-> FallbackText]
    /\ ~Includes(result.v.s, "Invalid API key")

(***************************************************************************)
(* Vocabulary of the client claims.                                        *)
(***************************************************************************)
\* The text every output of AIClient.getFallbackResponse starts with.
ClientBaseMessage(prompt) ==
    "Thanks for your question: \"" \o ToStr(prompt)
    \o "\". I'm here to help with business planning!"

\* v is an output of the client's Fallback Responder for the prompt.
IsClientFallback(v, prompt) ==
    /\ v.t = "string"
    /\ Len(v.s) > Len(ClientBaseMessage(prompt))
    /\ SubSeq(v.s, 1, Len(ClientBaseMessage(prompt))) = ClientBaseMessage(prompt)

\* The fetch the client's call awaits or awaited last.
LastFetch == fetches[Len(fetches)]

(***************************************************************************)
(* C11.  Client path selection: a call of AIClient.generateResponse takes  *)
(* exactly one path, chosen by the credentials and the developer mode at   *)
(* the call.  With user credentials naming a provider its only request, if *)
(* any, goes to that provider and never to the backend, and when it makes  *)
(* none or the request fails the result is the fallback text; otherwise    *)
(* with developer mode off it returns the fallback text with no request;   *)
(* otherwise it makes exactly one request, to the backend.  No request is  *)
(* added while the call goes on.                                           *)
(***************************************************************************)
C11_ClientPathSelection ==
    [][ /\ nCalls' = nCalls + 1 =>
            IF userApiKeys # Null /\ Truthy(userApiKeys.provider)
            THEN /\ Len(fetches') <= 1
                 /\ \A i \in DOMAIN fetches' :
                       /\ fetches'[i].target # "backend"
                       /\ Str(fetches'[i].target) = userApiKeys.provider
                 /\ fetches' = <<>> =>
                       /\ cpc' = "done"
                       /\ cresult'.state = "fulfilled"
                       /\ IsClientFallback(cresult'.v, creq'.prompt)
            ELSE IF ~DEVELOPER_MODE(viteEnv)
            THEN /\ fetches' = <<>>
                 /\ cpc' = "done"
                 /\ cresult'.state = "fulfilled"
                 /\ IsClientFallback(cresult'.v, creq'.prompt)
            ELSE /\ Len(fetches') = 1
                 /\ fetches'[1].target = "backend"
                 /\ cpc' = "await"
        /\ nCalls' = nCalls => fetches' = fetches
        /\ ( /\ cpc = "await" /\ cpc' = "done"
             /\ LastFetch.target # "backend"
             /\ ~cended'[Len(cended')].r.ok )
           => /\ cresult'.state = "fulfilled"
              /\ IsClientFallback(cresult'.v, creq.prompt)
      ]_vars

\* With Claude credentials set, the call asked Claude only, Claude answered
\* 401, and the call returned the fallback text.
C11_Witness ==
    /\ cpc = "done"
    /\ userApiKeys # Null
    /\ userApiKeys.provider = Str("claude")
    /\ Len(fetches) = 1
    /\ fetches[1].target = "claude"
    /\ cended[1].o.kind = "response"
    /\ cended[1].o.status = 401
    /\ IsClientFallback(cresult.v, creq.prompt)

(***************************************************************************)
(* C12.  The client router never rejects: whatever the user credentials    *)
(* and whatever the request on the chosen path does, the promise of        *)
(* AIClient.generateResponse is never rejected and is fulfilled with a     *)
(* string.                                                                 *)
(***************************************************************************)
C12_ClientNeverRejects ==
    /\ cresult.state # "rejected"
    /\ cresult.state = "fulfilled" => cresult.v.t = "string"

\* Without user credentials the backend answers 200 with a body that has no
\* response member, and the call is fulfilled with undefined.
C12_Failing ==
    /\ cpc = "done"
    /\ fetches # <<>>
    /\ LastFetch.target = "backend"
    /\ cended[1].o.kind = "response"
    /\ cended[1].o.status = 200
    /\ cended[1].o.body.parses
    /\ cended[1].o.body.data = Obj([provider |-> Str("Claude")])
    /\ cresult = [state |-> "fulfilled", v |-> Undefined]

(***************************************************************************)
(* C13.  No upstream leak: when the client's request was answered with an  *)
(* error status, the text returned to the user is the same for every       *)
(* error answer (status, status text, body) the same request could have    *)
(* got, and does not hold the credential sent with the request.            *)
(***************************************************************************)
C13_NoUpstreamLeak ==
    ( /\ cpc = "done"
      /\ cended # <<>>
      /\ cended[Len(cended)].o.kind = "response"
      /\ ~Ok(cended[Len(cended)].o) )
    => /\ \A o2 \in ClientOutcomes(LastFetch.target) :
             (o2.kind = "response" /\ ~Ok(o2)) =>
                 AfterFetch(viteEnv, creq.prompt, LastFetch.target,
                            Str(LastFetch.target),
                            ClientCall(LastFetch.target, o2)).r.v = cresult.v
       /\ LastFetch.credential.t = "string" =>
             ~Includes(cresult.v.s, LastFetch.credential.s)

\* Claude answered the direct call 401 and the text returned to the user
\* holds the error body of that answer.
C13_Failing ==
    /\ cpc = "done"
    /\ fetches # <<>>
    /\ LastFetch.target = "claude"
    /\ cended[1].o.kind = "response"
    /\ cended[1].o.status = 401
    /\ cresult.state = "fulfilled"
    /\ Includes(cresult.v.s, cended[1].o.body.text)

(***************************************************************************)
(* Vocabulary of the configuration claims.                                 *)
(***************************************************************************)
\* The strings a JSON value holds, at any depth.
RECURSIVE Strings(_)
Strings(v) ==
    CASE v.t = "string" -> {v.s}
      [] v.t = "object" -> UNION {Strings(v.f[k]) : k \in DOMAIN v.f}
      [] v.t = "array" -> UNION {Strings(v.a[i]) : i \in DOMAIN v.a}
      [] OTHER -> {}

CredentialNames ==
    {"CUSTOM_API_KEY", "GEMINI_API_KEY", "CLAUDE_API_KEY", "OPENAI_API_KEY"}

\* The environment e with every credential that passes validation replaced
\* by another one that passes it too.
OtherCredentials(e) ==
    [k \in DOMAIN e |->
        IF k \in CredentialNames /\ validateApiKey(e[k]) # Null
        THEN Str("other-" \o e[k].s)
        ELSE e[k]]

EnvConfigured(p) ==
    CASE p = "Custom API" -> /\ validateApiKey(env.CUSTOM_API_KEY) # Null
                             /\ Truthy(env.CUSTOM_API_BASE_URL)
      [] p = "Gemini" -> validateApiKey(env.GEMINI_API_KEY) # Null
      [] p = "Claude" -> validateApiKey(env.CLAUDE_API_KEY) # Null
      [] OTHER -> validateApiKey(env.OPENAI_API_KEY) # Null

\* The member of getConfigInfo's object that reports provider p.
ConfigMember(p) ==
    CASE p = "Custom API" -> "customAPI"
      [] p = "Gemini" -> "gemini"
      [] p = "Claude" -> "claude"
      [] OTHER -> "openai"

(***************************************************************************)
(* C15.  One 'configured' predicate, used consistently: generateResponse   *)
(* calls configured providers only, and all of them when each call threw;  *)
(* getConfigInfo reports configured = true for exactly the configured      *)
(* providers; isConfigured() is true iff one is configured;                *)
(* getActiveProvider() is 'None' iff none is, and otherwise the configured *)
(* provider of highest priority, the first one generateResponse calls.     *)
(***************************************************************************)
C15_OneConfiguredPredicate ==
    LET configured == {p \in ProviderNames : EnvConfigured(p)}
        active == getActiveProvider(aiService)
    IN  /\ program = "server" =>
              /\ isConfigured(aiService) <=> configured # {}
              /\ active = "None" <=> configured = {}
              /\ \A p \in ProviderNames :
                    active = p <=> /\ p \in configured
                                   /\ \A q \in configured : Rank(p) <= Rank(q)
        /\ \A i \in DOMAIN calls : calls[i] \in configured
        /\ calls # <<>> => calls[1] = active
        /\ (Answered /\ \A i \in DOMAIN ended : ~ended[i].r.ok) =>
              configured = {calls[i] : i \in DOMAIN calls}
        /\ configRes # NoResponse =>
              /\ \A p \in ProviderNames :
                    configRes.body.f.config.f[ConfigMember(p)].f.configured
                        = Bool(p \in configured)
              /\ configRes.body.f.isConfigured = Bool(configured # {})

\* A custom key without a base URL beside a valid Gemini key: the request
\* went to Gemini first and GET /config reports the custom provider as not
\* configured.
C15_Witness ==
    /\ validateApiKey(env.CUSTOM_API_KEY) # Null
    /\ env.CUSTOM_API_BASE_URL = Undefined
    /\ calls # <<>>
    /\ calls[1] = "Gemini"
    /\ configRes.status = 200
    /\ configRes.body.f.config.f.customAPI.f.configured = Bool(FALSE)
    /\ configRes.body.f.activeProvider = Str("Gemini")

(***************************************************************************)
(* Vocabulary of the credential claims.                                    *)
(***************************************************************************)
\* The field of the service that holds the validated credential.
KeyField(k) ==
    CASE k = "CUSTOM_API_KEY" -> "customApiKey"
      [] k = "GEMINI_API_KEY" -> "geminiApiKey"
      [] k = "CLAUDE_API_KEY" -> "claudeApiKey"
      [] OTHER -> "openaiApiKey"

KeyProvider(k) ==
    CASE k = "CUSTOM_API_KEY" -> "Custom API"
      [] k = "GEMINI_API_KEY" -> "Gemini"
      [] k = "CLAUDE_API_KEY" -> "Claude"
      [] OTHER -> "OpenAI"

\* The keys the specification calls unusable, judged on the string s.
Unusable(s) ==
    \/ s = ""
    \/ ToLowerCase(s) \in placeholders
    \/ Len(s) < 10

\* The examples the specification gives for validate.
ValidationExamples ==
    /\ validateApiKey(Str("")) = Null
    /\ validateApiKey(Undefined) = Null
    /\ validateApiKey(Str("your-api-key-here")) = Null
    /\ validateApiKey(Str("short")) = Null
    /\ validateApiKey(Str("a-real-looking-key-of-sufficient-length"))
          = Str("a-real-looking-key-of-sufficient-length")

(***************************************************************************)
(* C16.  Credential validation rejects unusable keys: for every credential *)
(* of the environment validateApiKey returns null when the key is absent,  *)
(* empty after trimming, a known placeholder in any case, or shorter than  *)
(* 10 characters, and returns the key itself otherwise; the constructor    *)
(* stores that result, and a provider whose key was rejected is not        *)
(* configured and is never called.  The specification's examples hold.     *)
(***************************************************************************)
C16_ValidationRejectsUnusable ==
    /\ ValidationExamples
    /\ \A k \in CredentialNames :
          LET validated == validateApiKey(env[k]) IN
          /\ validated =
                IF \/ env[k] = Undefined
                   \/ Trim(env[k].s) = ""
                   \/ Unusable(env[k].s)
                THEN Null ELSE env[k]
          /\ aiService[KeyField(k)] = validated
          /\ validated = Null =>
                /\ ~Configured(KeyProvider(k))
                /\ \A i \in DOMAIN calls : calls[i] # KeyProvider(k)

\* A request was handled by a server whose only key is a placeholder in
\* upper case: no provider was called and the fallback text was returned.
C16_Witness ==
    /\ env.OPENAI_API_KEY = Str("YOUR-API-KEY-HERE")
    /\ Answered
    /\ calls = <<>>
    /\ result = [state |-> "fulfilled", v |-> FallbackText]

(***************************************************************************)
(* C17.  Credential validation normalizes by trimming: a key with white    *)
(* space around it is judged on its trimmed value and an accepted key is   *)
(* stored trimmed, so the credential of a provider that is called has no   *)
(* white space around it.                                                  *)
(***************************************************************************)
C17_ValidationTrims ==
    \A k \in CredentialNames :
        env[k].t = "string" =>
            /\ validateApiKey(env[k]) =
                  IF Unusable(Trim(env[k].s)) THEN Null ELSE Str(Trim(env[k].s))
            /\ \A i \in DOMAIN calls :
                  calls[i] = KeyProvider(k) =>
                      aiService[KeyField(k)].s = Trim(aiService[KeyField(k)].s)

\* The only key is a placeholder with blanks around it: it passed
\* validation untrimmed and OpenAI was called with it.
C17_Failing ==
    /\ env.OPENAI_API_KEY = Str("  your-api-key-here  ")
    /\ aiService.openaiApiKey = Str("  your-api-key-here  ")
    /\ calls = <<"OpenAI">>

(***************************************************************************)
(* Vocabulary of the format claims.                                        *)
(***************************************************************************)
\* The values a body holds at the extraction locations of a format, in the
\* documented order of precedence; the first is the primary location.
LocationSeq(format, data) ==
    IF format = Str("openai")
    THEN <<OptGet(OptGet(OptAt0(OptGet(data, "choices")), "message"), "content"),
           OptGet(data, "response")>>
    ELSE IF format = Str("claude")
    THEN <<OptGet(OptAt0(OptGet(data, "content")), "text"), OptGet(data, "response")>>
    ELSE <<OptGet(data, "response"), OptGet(data, "content"), OptGet(data, "text"),
           OptGet(data, "message")>>

\* The first value of a sequence that is neither null nor undefined.
RECURSIVE FirstNonNull(_)
FirstNonNull(seq) ==
    IF seq = <<>> THEN Undefined
    ELSE IF ~Nullish(Head(seq)) THEN Head(seq)
    ELSE FirstNonNull(Tail(seq))

\* An ended call of the custom provider that was answered 2xx with a JSON
\* object.
CustomAnswered(e) ==
    /\ e.provider = "Custom API"
    /\ e.o.kind = "response"
    /\ Ok(e.o)
    /\ e.o.body.parses
    /\ ~Nullish(e.o.body.data)

(***************************************************************************)
(* C18.  Response parsing precedence per format: when the custom provider  *)
(* answers 2xx with a body that has a non-null value at one of the         *)
(* format's locations, the call returns the first non-null value in the    *)
(* order of the format (openai: choices[0].message.content, response;      *)
(* claude: content[0].text, response; generic: response, content, text,    *)
(* message); an earlier value that is present wins even when it is the     *)
(* empty string.                                                           *)
(***************************************************************************)
C18_ParsingPrecedence ==
    \A i \in DOMAIN ended :
        LET seq == LocationSeq(aiService.customConfig.format, ended[i].o.body.data) IN
        (CustomAnswered(ended[i]) /\ ~Nullish(FirstNonNull(seq))) =>
            ended[i].r = Return(FirstNonNull(seq))

\* In the generic format the body {response: "", message: text} was answered
\* and the call returned the message, not the empty response.
C18_Failing ==
    /\ aiService.customConfig.format = Str("custom")
    /\ ended # <<>>
    /\ CustomAnswered(ended[1])
    /\ ended[1].o.body.data = Obj([response |-> Str(""), message |-> Str(AnswerText)])
    /\ ended[1].r = Return(Str(AnswerText))

(***************************************************************************)
(* C19.  Format round trip: for each of the three formats and every        *)
(* response text t, the empty string included, a 2xx answer of the custom  *)
(* provider that carries t at the format's primary location is parsed back *)
(* to exactly t, and t is what generateResponse returns.                   *)
(***************************************************************************)
C19_FormatRoundTrip ==
    \A i \in DOMAIN ended :
        LET t == LocationSeq(aiService.customConfig.format, ended[i].o.body.data)[1] IN
        (CustomAnswered(ended[i]) /\ t.t = "string") =>
            /\ ended[i].r = Return(t)
            /\ result = [state |-> "fulfilled", v |-> t]

\* In the claude format the body {content: [{text: ""}]} was answered and
\* generateResponse returned the placeholder instead of the empty text.
C19_Failing ==
    /\ aiService.customConfig.format = Str("claude")
    /\ Answered
    /\ ended # <<>>
    /\ CustomAnswered(ended[1])
    /\ ended[1].o.body.data = ClaudeShaped(Str(""))
    /\ result = [state |-> "fulfilled", v |-> NoResponseReceived]

C22_BoundedTermination ==
    /\ [](/\ Len(calls) <= Cardinality({p \in ProviderNames : Configured(p)})
          /\ Len(calls) <= 4
          /\ Len(fetches) <= 1
          /\ (Answered /\ \A i \in DOMAIN ended : ~ended[i].r.ok)
                => /\ Len(ended) = Len(calls)
                   /\ inflight = {}
                   /\ result.state = "fulfilled")
    /\ (pc = "await" \/ cpc = "await")
          ~> (IF program = "server" THEN pc = "responded" ELSE cpc = "done")

\* The fourth provider call of a request threw and generateResponse ended
\* with the fallback text.
C22_Witness ==
    /\ Answered
    /\ Len(calls) = 4
    /\ Len(ended) = 4
    /\ ~ended[4].r.ok
    /\ result.v = FallbackText

(***************************************************************************)
(* C23.  Credential change during a client call: when setUserApiKeys or    *)
(* clearUserApiKeys ran while a call of AIClient.generateResponse awaited  *)
(* its fetch, the call is not rejected and, when fulfilled, its value is a *)
(* string; and the requests it made are exactly those one setting makes,   *)
(* the one at the call or the one installed during it (target and          *)
(* credential from the same setting).                                      *)
(***************************************************************************)
C23_CredentialChangeIsolated ==
    keysDuring # NotSet =>
        /\ cresult.state # "rejected"
        /\ cresult.state = "fulfilled" => cresult.v.t = "string"
        /\ \E k \in {keysAtCall, keysDuring} :
              LET step == AIClient_generateResponse(k, viteEnv, creq.prompt) IN
              fetches = IF step.kind = "await"
                        THEN <<[target |-> step.target, credential |-> step.credential]>>
                        ELSE <<>>

\* A call began with the user's Claude key and went to Claude; the keys were
\* cleared while it awaited; Claude answered 200 with a content block that
\* has no text, and the call is fulfilled with undefined.
C23_Failing ==
    /\ cpc = "done"
    /\ keysAtCall # Null
    /\ keysAtCall.provider = Str("claude")
    /\ keysDuring = Null
    /\ fetches # <<>>
    /\ LastFetch.target = "claude"
    /\ cended[1].o.kind = "response"
    /\ cended[1].o.status = 200
    /\ cresult = [state |-> "fulfilled", v |-> Undefined]

(***************************************************************************)
(* C24.  The health summary covers exactly the configured backends: GET    *)
(* /health is always answered 200; gemini, claude and openai have an entry *)
(* exactly when their key passed validation, with status configured and no *)
(* call made for them; custom has an entry exactly when it is configured,  *)
(* with status unhealthy when its probe was answered with a status outside *)
(* 200..299, unavailable when the probe failed in transport, and healthy   *)
(* otherwise.                                                              *)
(***************************************************************************)
C24_HealthCoversConfigured ==
    health.pc = "responded" =>
        /\ health.res.status = 200
        /\ LET services == Get(Get(health.res.body, "health"), "services").f
               key == [gemini |-> "GEMINI_API_KEY", claude |-> "CLAUDE_API_KEY",
                       openai |-> "OPENAI_API_KEY"]
           IN  /\ \A k \in DOMAIN key :
                     /\ k \in DOMAIN services <=> Truthy(validateApiKey(env[key[k]]))
                     /\ k \in DOMAIN services =>
                            Get(services[k], "status") = Str("configured")
               /\ "custom" \in DOMAIN services <=> Configured("Custom API")
               /\ DOMAIN services \subseteq {"custom", "gemini", "claude", "openai"}
               /\ (health.probe = NotProbed) <=> ("custom" \notin DOMAIN services)
               /\ "custom" \in DOMAIN services =>
                     Get(services["custom"], "status") =
                         IF health.probe.kind = "reject" THEN Str("unavailable")
                         ELSE IF health.probe.kind = "response"
                                 /\ health.probe.status \in 200..299 THEN Str("healthy")
                         ELSE Str("unhealthy")

\* The custom provider and Claude are configured, Gemini is not; the probe
\* of the custom provider failed in transport, and the answer is 200 with
\* custom unavailable, claude configured and no entry for gemini.
C24_Witness ==
    /\ health.pc = "responded"
    /\ health.probe.kind = "reject"
    /\ health.res.status = 200
    /\ LET services == Get(Get(health.res.body, "health"), "services").f
       IN  /\ {"custom", "claude"} \subseteq DOMAIN services
           /\ "gemini" \notin DOMAIN services
           /\ Get(services["custom"], "status") = Str("unavailable")
           /\ Get(services["claude"], "status") = Str("configured")

(***************************************************************************)
(* C25.  One router configuration per server process: once the server      *)
(* listens, the AIService instance of the route module (which serves       *)
(* /generate and /config) and the singleton whose active provider is       *)
(* logged at startup have the same configured providers, whether the       *)
(* credentials are in the process environment or only in the .env file.    *)
(***************************************************************************)
C25_OneRouterConfiguration ==
    boot.pc = "listening" =>
        LET configured(svc) ==
                {k \in {"customApiKey", "geminiApiKey", "claudeApiKey", "openaiApiKey"} :
                    IF k = "customApiKey" THEN CustomConfigured(svc) ELSE Truthy(svc[k])}
        IN  /\ configured(aiService) = configured(boot.singleton)
            /\ getActiveProvider(aiService) = getActiveProvider(boot.singleton)

\* The Claude key is only in the .env file: the route module's instance,
\* constructed when the imports were evaluated, has no provider, and the
\* singleton constructed after dotenv.config() has Claude.
C25_Failing ==
    /\ boot.pc = "listening"
    /\ boot.file = [CLAUDE_API_KEY |-> Str("sk-ant-file-key-0123456789")]
    /\ ~isConfigured(aiService)
    /\ getActiveProvider(boot.singleton) = "Claude"

(***************************************************************************)
(* C26.  The UI and the client agree on the user's credentials: whenever   *)
(* the React state holds user API keys with a provider selected (the       *)
(* status then reads '<Provider> (User API)'), the AIClient singleton      *)
(* holds the same keys, so its next generateResponse takes the direct      *)
(* path: it makes no request to the backend.                               *)
(***************************************************************************)
C26_UiAndClientAgree ==
    Truthy(ui.userApiKeys.provider) =>
        /\ userApiKeys = ui.userApiKeys
        /\ LET step == AIClient_generateResponse(userApiKeys, viteEnv, Str("Hi"))
           IN  step.kind = "await" => step.target # "backend"

\* The page was loaded with a Claude key saved in an earlier visit: the
\* mount effect has put the keys in the React state, no save is going on,
\* and the AIClient singleton has no keys: its next call goes to the backend.
C26_Failing ==
    /\ ui.mount = "loaded"
    /\ ui.saving = Null
    /\ ui.userApiKeys.provider = Str("claude")
    /\ ui.userApiKeys = ui.stored
    /\ userApiKeys = Null
    /\ AIClient_generateResponse(userApiKeys, viteEnv, Str("Hi")).kind = "await"
    /\ AIClient_generateResponse(userApiKeys, viteEnv, Str("Hi")).target = "backend"

(***************************************************************************)
(* C27.  At most one stored business plan per name and template: at all    *)
(* times, also when the lookups and writes of two saveBusinessPlan calls   *)
(* interleave, two stored plans with the same name and the same template   *)
(* are the same plan; and a save that found a plan updates it in place:    *)
(* the plan keeps its id and its createdAt, and no plan is added.          *)
(***************************************************************************)
C27_OnePlanPerNameAndTemplate ==
    /\ \A p, q \in db.businessPlans :
          (p.name = q.name /\ p.template = q.template) => p = q
    /\ db.op.name = "update" =>
          /\ {p.id : p \in db.businessPlans} = {p.id : p \in db.op.before.businessPlans}
          /\ \A p \in db.businessPlans : \A q \in db.op.before.businessPlans :
                (p.id = q.id /\ p.id = db.op.id) => p.createdAt = q.createdAt

\* savePlan and autoSavePlan both looked up the plan Acme / standard in an
\* empty store before either wrote: each added a plan, and the store holds
\* two plans of that name and template.
C27_Failing ==
    /\ db.saves = [c \in {"savePlan", "autoSavePlan"} |-> Null]
    /\ Cardinality(db.businessPlans) = 2
    /\ \A p \in db.businessPlans : p.name = "Acme" /\ p.template = "standard"

(***************************************************************************)
(* C28.  Referential integrity on delete.  After deleteBusinessPlan(id)    *)
(* returned, by its transaction or by its recovery path: the plan id is    *)
(* gone, no chat session refers to id, no chat message refers to a session *)
(* it deleted, no document refers to id and every document is kept.  On    *)
(* every path, the one that throws included, the plans other than id, the  *)
(* sessions of other plans, their messages and the documents of other      *)
(* plans are as before.  After deleteChatSession(s) no message of s is     *)
(* left.                                                                   *)
(***************************************************************************)
C28_DeleteKeepsIntegrity ==
    LET id == db.op.id
        before == db.op.before
        deleted == {x \in before.chatSessions : x.businessPlanId = Num(id)}
    IN  /\ (db.op.name = "deleteBusinessPlan" /\ db.op.path # "thrown") =>
              /\ \A p \in db.businessPlans : p.id # id
              /\ \A x \in db.chatSessions : x.businessPlanId # Num(id)
              /\ \A m \in db.chatMessages : \A x \in deleted : m.sessionId # x.id
              /\ \A d \in db.uploadedDocuments : d.businessPlanId # Num(id)
              /\ {d.id : d \in db.uploadedDocuments} = {d.id : d \in before.uploadedDocuments}
        /\ db.op.name = "deleteBusinessPlan" =>
              /\ {p \in db.businessPlans : p.id # id}
                     = {p \in before.businessPlans : p.id # id}
              /\ db.chatSessions \ deleted = before.chatSessions \ deleted
              /\ {m \in db.chatMessages : \A x \in deleted : m.sessionId # x.id}
                     = {m \in before.chatMessages : \A x \in deleted : m.sessionId # x.id}
              /\ {d \in before.uploadedDocuments : d.businessPlanId # Num(id)}
                     \subseteq db.uploadedDocuments
              /\ {d.id : d \in db.uploadedDocuments}
                     \subseteq {d.id : d \in before.uploadedDocuments}
        /\ db.op.name = "deleteChatSession" =>
              \A m \in db.chatMessages : m.sessionId # id

\* deleteBusinessPlan(1) on a database that lacks an object store: the
\* transaction failed, the database was recreated, and plan 2 with its chat
\* session and its message is gone too.
C28_Failing ==
    /\ db.op.name = "deleteBusinessPlan"
    /\ db.op.id = 1
    /\ db.op.path = "recreated"
    /\ \E p \in db.op.before.businessPlans : p.id = 2
    /\ \E x \in db.op.before.chatSessions : x.businessPlanId = Num(2)
    /\ db.businessPlans = {}
    /\ db.chatSessions = {}
    /\ db.chatMessages = {}

(***************************************************************************)
(* C29.  Chat request and reply are paired: the chat messages alternate,   *)
(* a user message first; a request is in flight only while isChatLoading,  *)
(* which is true exactly when the last message is a user message with no   *)
(* reply yet (so at most one request is in flight); a bot message holds    *)
(* what generateResponse returned or the connection-trouble notice; and    *)
(* when every request ends, isChatLoading returns to false, that is, the   *)
(* last user message has got its bot message.                              *)
(***************************************************************************)
C29_ChatPairing ==
    /\ [](/\ \A i \in DOMAIN ui.chatMessages :
                ui.chatMessages[i].type = IF i % 2 = 1 THEN "user" ELSE "bot"
          /\ ui.isChatLoading <=> (Len(ui.chatMessages) % 2 = 1)
          /\ (program = "chat" /\ cpc = "await") => ui.isChatLoading
          /\ (~ui.isChatLoading /\ ui.chatMessages # <<>>) =>
                ui.chatMessages[Len(ui.chatMessages)].message = cresult.v)
    /\ (ui.isChatLoading ~> ~ui.isChatLoading)

\* Two messages were sent, the second after the reply to the first, and
\* each has its bot message; the second request went to the backend and
\* failed in transport.
C29_Witness ==
    /\ Len(ui.chatMessages) = 4
    /\ ~ui.isChatLoading
    /\ ui.chatMessages[3] = [type |-> "user", message |-> Str("Hi")]
    /\ ui.chatMessages[4].type = "bot"
    /\ cended # <<>>
    /\ cended[1].o.kind = "reject"

(***************************************************************************)
(* C30.  Frame of closing a tab: handleTabClose('businessPlan') changes    *)
(* neither the documents nor the active tab, and no close button is        *)
(* rendered for that tab; closing another tab removes that tab's document  *)
(* only, every other document is as before, and the active tab becomes     *)
(* businessPlan when the closed tab was active and is as before otherwise. *)
(***************************************************************************)
C30_TabCloseFrame ==
    /\ \A n \in 0..3 : ~CloseButton(n, "businessPlan")
    /\ tabs.op.name = "handleTabClose" =>
          LET tabId == tabs.op.tabId
              before == tabs.op.before
          IN  IF tabId = "businessPlan"
              THEN /\ tabs.documents = before.documents
                   /\ tabs.activeTab = before.activeTab
              ELSE /\ DOMAIN tabs.documents = DOMAIN before.documents \ {tabId}
                   /\ \A t \in DOMAIN tabs.documents :
                         tabs.documents[t] = before.documents[t]
                   /\ tabs.activeTab = IF before.activeTab = tabId THEN "businessPlan"
                                       ELSE before.activeTab

\* The pitch-deck tab was active and was closed: its document is gone, the
\* business plan is as before, and the business-plan tab is active.
C30_Witness ==
    /\ tabs.op.name = "handleTabClose"
    /\ tabs.op.tabId = "pitchDeck"
    /\ tabs.op.before.activeTab = "pitchDeck"
    /\ DOMAIN tabs.op.before.documents = {"businessPlan", "pitchDeck"}
    /\ DOMAIN tabs.documents = {"businessPlan"}
    /\ tabs.documents["businessPlan"] = "# Plan"
    /\ tabs.activeTab = "businessPlan"

=============================================================================
